---- MODULE Spec2Model ----
(***************************************************************************)
(* Digital twin engine of Contexta (app/twin/engine.py): the topology      *)
(* graph, the asset metadata, the vulnerability registry, the path         *)
(* finders, the blast radius, the lateral movement simulation and the      *)
(* snapshot export / import.                                               *)
(*                                                                         *)
(* Representation.                                                         *)
(*  - graph is the networkx DiGraph: its node set, per node the successor  *)
(*    list in insertion order (the order graph.neighbors() yields), and    *)
(*    the attribute record of every edge.  The insertion order of the      *)
(*    nodes themselves is not kept: no modelled result depends on it.      *)
(*  - asset_metadata is the dict of asset records (a function whose        *)
(*    domain is the set of keys).  The open "metadata" sub-dict of a       *)
(*    record is not modelled.                                              *)
(*  - Python dict objects that can be shared between the engine and a      *)
(*    snapshot are heap cells: vulnerability_data is the reference held    *)
(*    by the engine, snapshot.vulnerabilities the one held by a snapshot.  *)
(*  - floats are scaled integers: probabilities in 1/1000, CVSS scores in  *)
(*    1/10, risk scores in 1/100.                                          *)
(***************************************************************************)
EXTENDS Integers, Sequences, FiniteSets, TLC

VARIABLES
    graph,               \* self.graph
    asset_metadata,      \* self.asset_metadata
    vulnerability_data,  \* self.vulnerability_data (a reference into heap)
    heap,                \* the vulnerability dict objects
    snapshot,            \* the snapshot dict the caller holds (export result or literal)
    sim,                 \* position and locals of a running simulate_lateral_movement
    op,                  \* name of the last engine call
    args,                \* its arguments
    ret,                 \* its result
    chain                \* BlockchainLedger.chain, << >> while no ledger is constructed

vars == <<graph, asset_metadata, vulnerability_data, heap, snapshot, sim, op, args, ret, chain>>

-----------------------------------------------------------------------------
(* Bounds and input families *)

Ids == {"a", "b", "c"}
IdOrder == <<"a", "b", "c">>
IngestIds == {"a", "b"}

MaxEdges == 2
MaxVulns == 2

Absent == "<absent>"          \* a key that a dict does not have
NoTime == -1                  \* compromise_time None
NoRef == 0                    \* a snapshot without the "vulnerabilities" key
Refs == {1, 2}

Tiers == {"critical", "high", "medium", "low"}

\* (asset_type, name, criticality, zone) given to add_asset
AssetInputs ==
    { [type |-> "server", name |-> "web", criticality |-> "high", zone |-> "dmz"],
      [type |-> "database", name |-> "db", criticality |-> "critical", zone |-> "internal"] }

\* (connection_type, protocols, weight) given to add_connection; <<>> is None / []
ConnInputs ==
    { [type |-> "network", protocols |-> << >>, weight |-> 1],
      [type |-> "trust", protocols |-> <<"ldap">>, weight |-> 2] }

\* vulnerability entries given to add_vulnerability (cvss_score in tenths)
VulnInputs ==
    { [cve_id |-> "CVE-1", cvss_score |-> 100, exploitable |-> TRUE, network_exploitable |-> TRUE],
      [cve_id |-> "CVE-2", cvss_score |-> 50, exploitable |-> TRUE, network_exploitable |-> FALSE] }

-----------------------------------------------------------------------------
(* Helpers *)

InSeq(s, x) == \E i \in 1..Len(s) : s[i] = x

SeqSet(s) == { s[i] : i \in 1..Len(s) }

EmptyDict == [x \in {} |-> << >>]

RECURSIVE SumOver(_, _)
SumOver(S, f) ==
    IF S = {} THEN 0
    ELSE LET x == CHOOSE y \in S : TRUE IN f[x] + SumOver(S \ {x}, f)

-----------------------------------------------------------------------------
(* networkx DiGraph *)

EmptyGraph == [nodes |-> {}, adj |-> EmptyDict, data |-> EmptyDict]

\* DiGraph.add_node: an existing node keeps its edges
GraphResetNode(g, n) ==
    [g EXCEPT !.nodes = @ \cup {n}, !.adj = (n :> << >>) @@ @]

GraphAddNode(g, n) ==
    IF n \in g.nodes THEN g
    ELSE [g EXCEPT !.nodes = @ \cup {n}, !.adj = (n :> << >>) @@ @]

\* DiGraph.add_edge: creates missing endpoints, keeps the successor order of
\* an existing edge and overwrites its attributes
GraphAddEdge(g, u, v, d) ==
    LET g1 == GraphAddNode(GraphAddNode(g, u), v)
    IN [g1 EXCEPT !.adj = [@ EXCEPT ![u] = IF InSeq(@, v) THEN @ ELSE Append(@, v)],
                  !.data = (<<u, v>> :> d) @@ @]

Neighbors(g, n) == g.adj[n]

NumEdges(g) == Cardinality(DOMAIN g.data)

IsEdge(g, u, v) == <<u, v>> \in DOMAIN g.data

-----------------------------------------------------------------------------
(* Ingestion: add_asset, add_connection, add_vulnerability *)

EmptyEngine == [graph |-> EmptyGraph, asset_metadata |-> EmptyDict]

Engine == [graph |-> graph, asset_metadata |-> asset_metadata]

NewAssetRecord(asset_id, asset_type, name, criticality, zone) ==
    [id |-> asset_id, type |-> asset_type, name |-> name,
     criticality |-> criticality, zone |-> zone,
     compromised |-> FALSE, compromise_time |-> NoTime]

add_asset(e, asset_id, asset_type, name, criticality, zone) ==
    [graph |-> GraphAddNode(e.graph, asset_id),
     asset_metadata |->
        (asset_id :> NewAssetRecord(asset_id, asset_type, name, criticality, zone))
            @@ e.asset_metadata]

EdgeData(connection_type, protocols, weight) ==
    [type |-> connection_type,
     protocols |-> IF protocols = << >> THEN <<"tcp">> ELSE protocols,
     weight |-> weight]

add_connection(e, source_id, target_id, connection_type, protocols, weight, bidirectional) ==
    LET edge_data == EdgeData(connection_type, protocols, weight)
        g1 == GraphAddEdge(e.graph, source_id, target_id, edge_data)
    IN [e EXCEPT !.graph = IF bidirectional
                           THEN GraphAddEdge(g1, target_id, source_id, edge_data)
                           ELSE g1]

\* on the dict object vd; an entry is appended whatever the list holds
AddUnlessKnown(vd, asset_id, v) ==
    IF asset_id \in DOMAIN vd
    THEN IF \E i \in 1..Len(vd[asset_id]) : vd[asset_id][i].cve_id = v.cve_id
         THEN vd
         ELSE [vd EXCEPT ![asset_id] = Append(@, v)]
    ELSE (asset_id :> <<v>>) @@ vd

add_vulnerability(vd, asset_id, v) ==
    IF asset_id \in DOMAIN vd
    THEN [vd EXCEPT ![asset_id] = Append(@, v)]
    ELSE (asset_id :> <<v>>) @@ vd

Vulns == heap[vulnerability_data]

NumVulns(vd) == SumOver(DOMAIN vd, [x \in DOMAIN vd |-> Len(vd[x])])

Idle == sim.pc = "idle"

RetNone == [kind |-> "none"]

\* add_asset entered from a second thread, whatever the running call is doing
AddAssetFromThread(asset_id, inp) ==
    /\ LET e == add_asset(Engine, asset_id, inp.type, inp.name, inp.criticality, inp.zone)
       IN /\ graph' = e.graph
          /\ asset_metadata' = e.asset_metadata
    /\ op' = "add_asset"
    /\ args' = [asset_id |-> asset_id]
    /\ ret' = RetNone
    /\ UNCHANGED <<vulnerability_data, heap, snapshot, sim, chain>>

AddAsset(asset_id, inp) ==
    /\ Idle
    /\ LET e == add_asset(Engine, asset_id, inp.type, inp.name, inp.criticality, inp.zone)
       IN /\ graph' = e.graph
          /\ asset_metadata' = e.asset_metadata
    /\ op' = "add_asset"
    /\ args' = [asset_id |-> asset_id]
    /\ ret' = RetNone
    /\ UNCHANGED <<vulnerability_data, heap, snapshot, sim, chain>>

AddConnection(source_id, target_id, inp, bidirectional) ==
    /\ Idle
    /\ LET e == add_connection(Engine, source_id, target_id,
                               inp.type, inp.protocols, inp.weight, bidirectional)
       IN /\ NumEdges(e.graph) <= MaxEdges
          /\ graph' = e.graph
          /\ asset_metadata' = e.asset_metadata
    /\ op' = "add_connection"
    /\ args' = [source_id |-> source_id, target_id |-> target_id]
    /\ ret' = RetNone
    /\ UNCHANGED <<vulnerability_data, heap, snapshot, sim, chain>>

AddVulnerability(asset_id, v) ==
    /\ Idle
    /\ NumVulns(Vulns) < MaxVulns
    /\ heap' = [heap EXCEPT ![vulnerability_data] = add_vulnerability(@, asset_id, v)]
    /\ op' = "add_vulnerability"
    /\ args' = [asset_id |-> asset_id, vulnerability |-> v]
    /\ ret' = RetNone
    /\ UNCHANGED <<graph, asset_metadata, vulnerability_data, snapshot, sim, chain>>

-----------------------------------------------------------------------------
(* Snapshots: export_to_dict, import_from_dict *)

NoSnapshot == [nodes |-> << >>, edges |-> << >>, vulnerabilities |-> NoRef, held |-> FALSE]

\* {"id": node, **self.asset_metadata.get(node, {})}: the keys import reads
ExportNode(e, node) ==
    IF node \in DOMAIN e.asset_metadata
    THEN LET m == e.asset_metadata[node]
         IN [id |-> m.id, type |-> m.type, name |-> m.name,
             criticality |-> m.criticality, zone |-> m.zone]
    ELSE [id |-> node, type |-> Absent, name |-> Absent,
          criticality |-> Absent, zone |-> Absent]

\* {"source": u, "target": v, **data}
ExportEdge(e, u, v) ==
    LET d == e.graph.data[<<u, v>>]
    IN [source |-> u, target |-> v, type |-> d.type,
        protocols |-> d.protocols, weight |-> d.weight]

RECURSIVE ExportNodes(_, _)
ExportNodes(e, i) ==
    IF i > Len(IdOrder) THEN << >>
    ELSE (IF IdOrder[i] \in e.graph.nodes THEN <<ExportNode(e, IdOrder[i])>> ELSE << >>)
         \o ExportNodes(e, i + 1)

RECURSIVE ExportEdges(_, _)
ExportEdges(e, i) ==
    IF i > Len(IdOrder) THEN << >>
    ELSE (IF IdOrder[i] \in e.graph.nodes
          THEN LET u == IdOrder[i]
               IN [j \in 1..Len(e.graph.adj[u]) |-> ExportEdge(e, u, e.graph.adj[u][j])]
          ELSE << >>)
         \o ExportEdges(e, i + 1)

\* the dict export_to_dict returns; "vulnerabilities" is the engine's own dict object
export_to_dict(e, vref) ==
    [nodes |-> ExportNodes(e, 1), edges |-> ExportEdges(e, 1),
     vulnerabilities |-> vref, held |-> TRUE]

\* dict cells no one refers to are dropped
Collect(h, live) == [r \in Refs |-> IF r \in live THEN h[r] ELSE EmptyDict]

Get(value, default) == IF value = Absent THEN default ELSE value

\* for node in data["nodes"]: node.pop("id"); self.add_asset(...)
RECURSIVE ImportNodes(_, _, _)
ImportNodes(e, nodes, i) ==
    IF i > Len(nodes) THEN [e |-> e, nodes |-> nodes, raised |-> FALSE]
    ELSE IF nodes[i].id = Absent THEN [e |-> e, nodes |-> nodes, raised |-> TRUE]
    ELSE LET node_id == nodes[i].id
             node == nodes[i]
         IN ImportNodes(add_asset(e, node_id, Get(node.type, "unknown"),
                                  Get(node.name, node_id),
                                  Get(node.criticality, "medium"),
                                  Get(node.zone, "internal")),
                        [nodes EXCEPT ![i].id = Absent], i + 1)

\* for edge in data["edges"]: self.add_connection(edge["source"], edge["target"], ...)
RECURSIVE ImportEdges(_, _, _)
ImportEdges(e, edges, i) ==
    IF i > Len(edges) THEN [e |-> e, raised |-> FALSE]
    ELSE IF edges[i].source = Absent \/ edges[i].target = Absent
         THEN [e |-> e, raised |-> TRUE]
    ELSE LET edge == edges[i]
         IN ImportEdges(add_connection(e, edge.source, edge.target,
                                       Get(edge.type, "network"),
                                       IF edge.protocols = <<Absent>> THEN <<"tcp">>
                                       ELSE edge.protocols,
                                       IF edge.weight < 0 THEN 1 ELSE edge.weight,
                                       FALSE),
                        edges, i + 1)

\* import_from_dict(data) on the engine (e, vref, h): the three clear() calls,
\* the node loop, the edge loop, the rebinding of vulnerability_data.
\* A KeyError leaves what was done so far.
import_from_dict(vref, h, data) ==
    LET h1 == [h EXCEPT ![vref] = EmptyDict]
        r1 == ImportNodes(EmptyEngine, data.nodes, 1)
        r2 == ImportEdges(r1.e, data.edges, 1)
    IN IF r1.raised
       THEN [e |-> r1.e, vref |-> vref, heap |-> h1, nodes |-> r1.nodes, raised |-> TRUE]
       ELSE IF r2.raised
       THEN [e |-> r2.e, vref |-> vref, heap |-> h1, nodes |-> r1.nodes, raised |-> TRUE]
       ELSE [e |-> r2.e,
             vref |-> IF data.vulnerabilities = NoRef THEN vref ELSE data.vulnerabilities,
             heap |-> h1, nodes |-> r1.nodes, raised |-> FALSE]

ExportToDict ==
    /\ Idle
    /\ snapshot' = export_to_dict(Engine, vulnerability_data)
    /\ heap' = Collect(heap, {vulnerability_data})
    /\ op' = "export_to_dict"
    /\ args' = << >>
    /\ ret' = RetNone
    /\ UNCHANGED <<graph, asset_metadata, vulnerability_data, sim, chain>>

\* the caller builds a snapshot dict of its own (a parsed request body)
CallerSnapshot(lit) ==
    /\ Idle
    /\ LET fresh == CHOOSE r \in Refs : r # vulnerability_data
       IN /\ snapshot' = [nodes |-> lit.nodes, edges |-> lit.edges,
                          vulnerabilities |-> IF lit.hasVulns THEN fresh ELSE NoRef,
                          held |-> TRUE]
          /\ heap' = [Collect(heap, {vulnerability_data}) EXCEPT ![fresh] = lit.vulns]
    /\ op' = "caller_snapshot"
    /\ args' = << >>
    /\ ret' = RetNone
    /\ UNCHANGED <<graph, asset_metadata, vulnerability_data, sim, chain>>

ImportFromDict ==
    /\ Idle
    /\ snapshot.held
    /\ LET r == import_from_dict(vulnerability_data, heap, snapshot)
       IN /\ graph' = r.e.graph
          /\ asset_metadata' = r.e.asset_metadata
          /\ vulnerability_data' = r.vref
          /\ snapshot' = [snapshot EXCEPT !.nodes = r.nodes]
          /\ heap' = Collect(r.heap, {r.vref, snapshot.vulnerabilities})
          /\ ret' = [kind |-> IF r.raised THEN "raise" ELSE "none"]
    /\ op' = "import_from_dict"
    /\ args' = << >>
    /\ UNCHANGED <<sim, chain>>

-----------------------------------------------------------------------------
(* Snapshot literals a caller may pass to import_from_dict *)

NodeLit(id) == [id |-> id, type |-> "server", name |-> Absent,
                criticality |-> "low", zone |-> Absent]

EdgeLit(s, t) == [source |-> s, target |-> t, type |-> "network",
                  protocols |-> <<Absent>>, weight |-> -1]

LitVuln == [cve_id |-> "CVE-3", cvss_score |-> 70, exploitable |-> FALSE,
            network_exploitable |-> TRUE]

Literals ==
    { \* a consistent snapshot
      [nodes |-> <<NodeLit("a"), NodeLit("b")>>, edges |-> <<EdgeLit("a", "b")>>,
       hasVulns |-> TRUE, vulns |-> ("b" :> <<LitVuln>>)],
      \* an edge to a node that is not among the nodes
      [nodes |-> <<NodeLit("a")>>, edges |-> <<EdgeLit("a", "b")>>,
       hasVulns |-> FALSE, vulns |-> EmptyDict],
      \* two node entries with the same id
      [nodes |-> <<NodeLit("a"), [NodeLit("a") EXCEPT !.criticality = "high"]>>,
       edges |-> << >>, hasVulns |-> FALSE, vulns |-> EmptyDict],
      \* a node entry without "id"
      [nodes |-> <<NodeLit("a"), NodeLit(Absent)>>, edges |-> << >>,
       hasVulns |-> FALSE, vulns |-> EmptyDict],
      \* an edge entry without "target"
      [nodes |-> <<NodeLit("a"), NodeLit("b")>>, edges |-> <<EdgeLit("a", Absent)>>,
       hasVulns |-> TRUE, vulns |-> ("a" :> <<LitVuln>>)] }

-----------------------------------------------------------------------------
(* The engine after construction, and the ingestion / snapshot specification *)

SimIdle == [pc |-> "idle"]

Init ==
    /\ graph = EmptyGraph
    /\ asset_metadata = EmptyDict
    /\ vulnerability_data = 1
    /\ heap = [r \in Refs |-> EmptyDict]
    /\ snapshot = NoSnapshot
    /\ sim = SimIdle
    /\ op = "init"
    /\ args = << >>
    /\ ret = RetNone
    /\ chain = << >>

\* the add_connection calls of the ingestion runs: a one-way network link with
\* the default protocols, and a two-way trust link
ConnCalls ==
    { [inp |-> CHOOSE i \in ConnInputs : i.type = "network", bidirectional |-> FALSE],
      [inp |-> CHOOSE i \in ConnInputs : i.type = "trust", bidirectional |-> TRUE] }

Next ==
    \/ \E id \in IngestIds, inp \in AssetInputs : AddAsset(id, inp)
    \/ \E s \in IngestIds, t \in IngestIds, c \in ConnCalls :
          AddConnection(s, t, c.inp, c.bidirectional)
    \/ \E id \in IngestIds, v \in VulnInputs : AddVulnerability(id, v)

Spec == Init /\ [][Next]_vars

-----------------------------------------------------------------------------
(* Ingestion together with export and import of snapshots *)

SnapAssetInput == CHOOSE inp \in AssetInputs : inp.criticality = "high"
SnapConnInput == CHOOSE inp \in ConnInputs : inp.type = "trust"
SnapVulnInput == CHOOSE v \in VulnInputs : v.network_exploitable

SnapConnections == {<<"a", "b">>, <<"b", "b">>}

NextSnapshot ==
    \/ \E id \in IngestIds : AddAsset(id, SnapAssetInput)
    \/ \E c \in SnapConnections : AddConnection(c[1], c[2], SnapConnInput, FALSE)
    \/ \E id \in IngestIds : AddVulnerability(id, SnapVulnInput)
    \/ ExportToDict
    \/ \E lit \in Literals : CallerSnapshot(lit)
    \/ ImportFromDict

SpecSnapshot == Init /\ [][NextSnapshot]_vars

-----------------------------------------------------------------------------
(* Path finders: find_attack_paths_bfs, find_attack_paths_dfs *)

MaxDepth == 3

\* if len(path) > max_depth: continue
BfsTooDeepOffByOne(path, max_depth) == Len(path) >= max_depth

BfsTooDeep(path, max_depth) == Len(path) > max_depth

\* if neighbor not in path
BfsMayRevisit(neighbor, path) == TRUE

BfsCanExtend(neighbor, path) == ~InSeq(path, neighbor)

\* for neighbor in self.graph.neighbors(current): the new queue entries and
\* the grown visited_paths
RECURSIVE BfsExpand(_, _, _, _, _)
BfsExpand(nbrs, i, path, queue, visited_paths) ==
    IF i > Len(nbrs) THEN [queue |-> queue, visited_paths |-> visited_paths]
    ELSE LET neighbor == nbrs[i]
             new_path == Append(path, neighbor)
         IN IF BfsCanExtend(neighbor, path) /\ new_path \notin visited_paths
            THEN BfsExpand(nbrs, i + 1, path,
                           Append(queue, [current |-> neighbor, path |-> new_path]),
                           visited_paths \cup {new_path})
            ELSE BfsExpand(nbrs, i + 1, path, queue, visited_paths)

\* while queue: ...
RECURSIVE BfsLoop(_, _, _, _, _, _)
BfsLoop(g, target_id, max_depth, queue, visited_paths, paths) ==
    IF queue = << >> THEN paths
    ELSE LET current == Head(queue).current
             path == Head(queue).path
             rest == Tail(queue)
         IN IF BfsTooDeep(path, max_depth)
            THEN BfsLoop(g, target_id, max_depth, rest, visited_paths, paths)
            ELSE IF current = target_id
            THEN BfsLoop(g, target_id, max_depth, rest, visited_paths, Append(paths, path))
            ELSE LET x == BfsExpand(Neighbors(g, current), 1, path, rest, visited_paths)
                 IN BfsLoop(g, target_id, max_depth, x.queue, x.visited_paths, paths)

find_attack_paths_bfs(g, start_id, target_id, max_depth) ==
    IF start_id \notin g.nodes \/ target_id \notin g.nodes THEN << >>
    ELSE BfsLoop(g, target_id, max_depth,
                 <<[current |-> start_id, path |-> <<start_id>>]>>, {}, << >>)

\* if len(path) > max_depth: return
DfsTooDeepOffByOne(path, max_depth) == Len(path) >= max_depth

DfsTooDeep(path, max_depth) == Len(path) > max_depth

\* dfs_recursive(current, path, visited) and its loop over the neighbours from
\* position i; paths is the list the closure appends to.  visited.add before
\* and visited.remove after the recursive call leave visited as it was.
RECURSIVE dfs_recursive(_, _, _, _, _, _, _)
RECURSIVE DfsNeighbors(_, _, _, _, _, _, _, _)
dfs_recursive(g, target_id, max_depth, current, path, visited, paths) ==
    IF DfsTooDeep(path, max_depth) THEN paths
    ELSE IF current = target_id THEN Append(paths, path)
    ELSE DfsNeighbors(g, target_id, max_depth, current, 1, path, visited, paths)

DfsNeighbors(g, target_id, max_depth, current, i, path, visited, paths) ==
    IF i > Len(Neighbors(g, current)) THEN paths
    ELSE LET neighbor == Neighbors(g, current)[i]
         IN DfsNeighbors(g, target_id, max_depth, current, i + 1, path, visited,
               IF neighbor \notin visited
               THEN dfs_recursive(g, target_id, max_depth, neighbor,
                                  Append(path, neighbor), visited \cup {neighbor}, paths)
               ELSE paths)

find_attack_paths_dfs(g, start_id, target_id, max_depth) ==
    IF start_id \notin g.nodes \/ target_id \notin g.nodes THEN << >>
    ELSE dfs_recursive(g, target_id, max_depth, start_id, <<start_id>>, {start_id}, << >>)

FindAttackPathsBfs(start_id, target_id, max_depth) ==
    /\ Idle
    /\ op' = "find_attack_paths_bfs"
    /\ args' = [start_id |-> start_id, target_id |-> target_id, max_depth |-> max_depth]
    /\ ret' = [kind |-> "paths",
               paths |-> find_attack_paths_bfs(graph, start_id, target_id, max_depth)]
    /\ UNCHANGED <<graph, asset_metadata, vulnerability_data, heap, snapshot, sim, chain>>

FindAttackPathsDfs(start_id, target_id, max_depth) ==
    /\ Idle
    /\ op' = "find_attack_paths_dfs"
    /\ args' = [start_id |-> start_id, target_id |-> target_id, max_depth |-> max_depth]
    /\ ret' = [kind |-> "paths",
               paths |-> find_attack_paths_dfs(graph, start_id, target_id, max_depth)]
    /\ UNCHANGED <<graph, asset_metadata, vulnerability_data, heap, snapshot, sim, chain>>

-----------------------------------------------------------------------------
(* Engines built by ingestion, for the analysis specifications *)

MaxTopoEdges == 3

Pairs == Ids \X Ids

SeqsUpTo(S, n) == UNION { [1..k -> S] : k \in 0..n }

DefaultConn == CHOOSE inp \in ConnInputs : inp.type = "network"

\* add_asset calls that precede the connections: <<asset_id, input>>
AssetLow == [type |-> "workstation", name |-> "pc", criticality |-> "low", zone |-> "internal"]
AssetHigh == CHOOSE inp \in AssetInputs : inp.criticality = "high"
AssetCritical == CHOOSE inp \in AssetInputs : inp.criticality = "critical"

AssetChoices ==
    { <<<<"a", AssetHigh>>, <<"b", AssetCritical>>, <<"c", AssetLow>>>>,
      <<<<"a", AssetCritical>>, <<"b", AssetLow>>>>,
      << >> }

RECURSIVE AddAssets(_, _, _)
AddAssets(e, assets, i) ==
    IF i > Len(assets) THEN e
    ELSE AddAssets(add_asset(e, assets[i][1], assets[i][2].type, assets[i][2].name,
                             assets[i][2].criticality, assets[i][2].zone),
                   assets, i + 1)

RECURSIVE AddConnections(_, _, _)
AddConnections(e, es, i) ==
    IF i > Len(es) THEN e
    ELSE AddConnections(add_connection(e, es[i][1], es[i][2], DefaultConn.type,
                                       DefaultConn.protocols, DefaultConn.weight, FALSE),
                        es, i + 1)

BuildEngine(assets, es) == AddConnections(AddAssets(EmptyEngine, assets, 1), es, 1)

InitBuilt(assets, es) ==
    /\ graph = BuildEngine(assets, es).graph
    /\ asset_metadata = BuildEngine(assets, es).asset_metadata
    /\ vulnerability_data = 1
    /\ heap = [r \in Refs |-> EmptyDict]
    /\ snapshot = NoSnapshot
    /\ sim = SimIdle
    /\ op = "init"
    /\ args = << >>
    /\ ret = RetNone
    /\ chain = << >>

\* the connections of the path finder runs: every edge between two different
\* nodes and one self loop
PathPairs == { c \in Pairs : c[1] # c[2] } \cup {<<"b", "b">>}

PathAssetChoices == { assets \in AssetChoices : Len(assets) # 2 }

InitPaths == \E assets \in PathAssetChoices, es \in SeqsUpTo(PathPairs, MaxTopoEdges) :
                InitBuilt(assets, es)

NextPaths ==
    \/ \E s \in Ids, t \in Ids, d \in 0..MaxDepth : FindAttackPathsBfs(s, t, d)
    \/ \E s \in Ids, t \in Ids, d \in 0..MaxDepth : FindAttackPathsDfs(s, t, d)

SpecPaths == InitPaths /\ [][NextPaths]_vars

-----------------------------------------------------------------------------
(* Blast radius: calculate_blast_radius *)

MaxHops == 2

\* self.asset_metadata.get(aid, {}).get("criticality", "medium")
CriticalityOf(e, aid) ==
    IF aid \in DOMAIN e.asset_metadata THEN e.asset_metadata[aid].criticality ELSE "medium"

\* criticality_weights.get(crit, 4)
CriticalityWeight(crit) ==
    CASE crit = "critical" -> 10
      [] crit = "high" -> 7
      [] crit = "medium" -> 4
      [] crit = "low" -> 1
      [] OTHER -> 4

\* for neighbor in self.graph.neighbors(current): if neighbor not in visited: ...
RECURSIVE BlastNeighbors(_, _, _, _)
BlastNeighbors(nbrs, i, visited, next_level) ==
    IF i > Len(nbrs) THEN [visited |-> visited, next_level |-> next_level]
    ELSE IF nbrs[i] \notin visited
         THEN BlastNeighbors(nbrs, i + 1, visited \cup {nbrs[i]}, Append(next_level, nbrs[i]))
         ELSE BlastNeighbors(nbrs, i + 1, visited, next_level)

\* for current in current_level: ...
RECURSIVE BlastLevel(_, _, _, _, _)
BlastLevel(g, current_level, i, visited, next_level) ==
    IF i > Len(current_level) THEN [visited |-> visited, next_level |-> next_level]
    ELSE LET x == BlastNeighbors(Neighbors(g, current_level[i]), 1, visited, next_level)
         IN BlastLevel(g, current_level, i + 1, x.visited, x.next_level)

\* for hop in range(1, max_hops + 1): ...; the result is reachable_by_hop
RECURSIVE BlastHops(_, _, _, _, _, _)
BlastHops(g, hop, max_hops, visited, current_level, reachable_by_hop) ==
    IF hop > max_hops THEN reachable_by_hop
    ELSE LET x == BlastLevel(g, current_level, 1, visited, << >>)
         IN BlastHops(g, hop + 1, max_hops, x.visited, x.next_level,
                      (hop :> x.next_level) @@ reachable_by_hop)

\* visited = {asset_id}; current_level = [asset_id]
ReachableByHopUnvisited(g, asset_id, max_hops) ==
    BlastHops(g, 1, max_hops, {}, <<asset_id>>, (0 :> <<asset_id>>))

ReachableByHop(g, asset_id, max_hops) ==
    BlastHops(g, 1, max_hops, {asset_id}, <<asset_id>>, (0 :> <<asset_id>>))

RECURSIVE Factorial(_)
Factorial(n) == IF n <= 1 THEN 1 ELSE n * Factorial(n - 1)

\* risks are kept as integer multiples of 1/RiskUnit(max_hops), so that the
\* decay factor 1 / (hop + 1) is exact
RiskUnit(max_hops) == Factorial(max_hops + 1)

RECURSIVE SumWeights(_, _, _)
SumWeights(e, assets, i) ==
    IF i > Len(assets) THEN 0
    ELSE CriticalityWeight(CriticalityOf(e, assets[i])) + SumWeights(e, assets, i + 1)

\* hop_risk after "hop_risk *= decay_factor", in 1/RiskUnit
HopRisk(e, assets, hop, max_hops) ==
    SumWeights(e, assets, 1) * (RiskUnit(max_hops) \div (hop + 1))

\* the hops whose risk is added to total_risk: reachable_by_hop.items()
RiskHops(reachable_by_hop) == DOMAIN reachable_by_hop

TotalRisk(e, reachable_by_hop, max_hops) ==
    SumOver(RiskHops(reachable_by_hop),
            [hop \in DOMAIN reachable_by_hop |->
                HopRisk(e, reachable_by_hop[hop], hop, max_hops)])

\* round(num / den, 2) in hundredths, ties to even
Round2(num, den) ==
    LET q == (100 * num) \div den
        r == (100 * num) % den
    IN IF 2 * r > den \/ (2 * r = den /\ q % 2 = 1) THEN q + 1 ELSE q

\* all_affected: the hops 1..max_hops, in order
RECURSIVE AllAffected(_, _, _)
AllAffected(reachable_by_hop, hop, max_hops) ==
    IF hop > max_hops THEN << >>
    ELSE reachable_by_hop[hop] \o AllAffected(reachable_by_hop, hop + 1, max_hops)

calculate_blast_radius(e, asset_id, max_hops) ==
    IF asset_id \notin e.graph.nodes THEN [kind |-> "error"]
    ELSE LET reachable_by_hop == ReachableByHop(e.graph, asset_id, max_hops)
             all_affected == AllAffected(reachable_by_hop, 1, max_hops)
             IsTier(aid) == CriticalityOf(e, aid) \in Tiers
             InTier(tier) == LET keep(aid) == CriticalityOf(e, aid) = tier
                             IN SelectSeq(all_affected, keep)
         IN \* affected_by_criticality[crit].append(aid) is a KeyError for
            \* a criticality that is none of the four keys
            IF \E i \in 1..Len(all_affected) : ~IsTier(all_affected[i])
            THEN [kind |-> "raise"]
            ELSE [kind |-> "ok",
                  source_asset |-> asset_id,
                  max_hops_analyzed |-> max_hops,
                  total_affected_assets |-> Len(all_affected),
                  affected_by_hop |->
                      [hop \in DOMAIN reachable_by_hop \ {0} |-> Len(reachable_by_hop[hop])],
                  affected_by_criticality |-> [tier \in Tiers |-> Len(InTier(tier))],
                  risk_score |-> Round2(TotalRisk(e, reachable_by_hop, max_hops),
                                        RiskUnit(max_hops)),
                  risk_by_hop |->
                      [hop \in DOMAIN reachable_by_hop |->
                          Round2(HopRisk(e, reachable_by_hop[hop], hop, max_hops),
                                 RiskUnit(max_hops))],
                  critical_assets_at_risk |-> InTier("critical"),
                  high_assets_at_risk |-> InTier("high")]

\* the call, were it to flag the analysed asset as compromised
BlastRadiusFlagging(asset_id, max_hops) ==
    /\ Idle
    /\ op' = "calculate_blast_radius"
    /\ args' = [asset_id |-> asset_id, max_hops |-> max_hops]
    /\ ret' = calculate_blast_radius(Engine, asset_id, max_hops)
    /\ asset_metadata' =
          [aid \in DOMAIN asset_metadata |->
              IF aid = asset_id THEN [asset_metadata[aid] EXCEPT !.compromised = TRUE]
              ELSE asset_metadata[aid]]
    /\ UNCHANGED <<graph, vulnerability_data, heap, snapshot, sim, chain>>

CalculateBlastRadius(asset_id, max_hops) ==
    /\ Idle
    /\ op' = "calculate_blast_radius"
    /\ args' = [asset_id |-> asset_id, max_hops |-> max_hops]
    /\ ret' = calculate_blast_radius(Engine, asset_id, max_hops)
    /\ UNCHANGED <<graph, asset_metadata, vulnerability_data, heap, snapshot, sim, chain>>

InitBlast == \E assets \in AssetChoices, es \in SeqsUpTo(PathPairs, MaxTopoEdges) :
                InitBuilt(assets, es)

NextBlast == \E x \in Ids, h \in 0..MaxHops : CalculateBlastRadius(x, h)

SpecBlast == InitBlast /\ [][NextBlast]_vars

-----------------------------------------------------------------------------
(* Lateral movement: simulate_lateral_movement *)

MaxSteps == 2

\* propagation_probability values, in 1/1000
Probabilities == {0, 500, 1000}

\* if initial_compromise not in self.graph: return {"error": "Asset not found"}
SimAssetFoundAlways(g, initial_compromise) == TRUE

SimAssetFound(g, initial_compromise) == initial_compromise \in g.nodes

\* for asset_id in self.asset_metadata: compromised = False; compromise_time = None
ResetSkipped(am) == am

ResetCompromise(am) ==
    [aid \in DOMAIN am |->
        [am[aid] EXCEPT !.compromised = FALSE, !.compromise_time = NoTime]]

\* self.asset_metadata[aid]["compromised"] = True; ...["compromise_time"] = t
MarkCompromised(am, aid, t) ==
    [am EXCEPT ![aid].compromised = TRUE, ![aid].compromise_time = t]

\* [v for v in vulns if v["network_exploitable"]], [] when neighbor has no list
ExploitableVulns(vd, neighbor) ==
    IF neighbor \in DOMAIN vd
    THEN LET net(v) == v.network_exploitable IN SelectSeq(vd[neighbor], net)
    ELSE << >>

\* max(v["cvss_score"] for v in exploitable_vulns)
MaxCvss(vulns) ==
    CHOOSE m \in { vulns[i].cvss_score : i \in 1..Len(vulns) } :
        \A i \in 1..Len(vulns) : vulns[i].cvss_score <= m

\* (max_cvss / 10) * 0.3 in 1/1000, for a CVSS score in tenths
VulnBonus(vd, neighbor) ==
    LET exploitable_vulns == ExploitableVulns(vd, neighbor)
    IN IF exploitable_vulns = << >> THEN 0 ELSE 3 * MaxCvss(exploitable_vulns)

\* prob = propagation_probability; prob += bonus
PropagationProb(vd, neighbor, propagation_probability) ==
    propagation_probability + VulnBonus(vd, neighbor)

\* the values "random.random() < prob" can take: random() is any float in [0, 1)
RandomAtMost(prob) == { d \in BOOLEAN : IF d THEN prob >= 0 ELSE prob < 1000 }

RandomBelow(prob) == { d \in BOOLEAN : IF d THEN prob > 0 ELSE prob < 1000 }

TimelineEntry(t, newly_compromised, total_compromised) ==
    [time_step |-> t, newly_compromised |-> newly_compromised,
     total_compromised |-> total_compromised]

SimArgs(initial_compromise, time_steps, propagation_probability) ==
    [initial_compromise |-> initial_compromise, time_steps |-> time_steps,
     propagation_probability |-> propagation_probability]

RetPending == [kind |-> "pending"]

RetRaise == [kind |-> "raise"]

\* the call up to the time step loop: the presence test, the reset loop, the
\* initial compromise
SimulateLateralMovement(initial_compromise, time_steps, propagation_probability) ==
    /\ Idle
    /\ op' = "simulate_lateral_movement"
    /\ args' = SimArgs(initial_compromise, time_steps, propagation_probability)
    /\ IF ~SimAssetFound(graph, initial_compromise)
       THEN /\ ret' = [kind |-> "error"]
            /\ UNCHANGED <<asset_metadata, sim>>
       ELSE LET am == ResetCompromise(asset_metadata)
            IN IF initial_compromise \notin DOMAIN am
               THEN \* self.asset_metadata[initial_compromise] is a KeyError
                    /\ asset_metadata' = am
                    /\ ret' = RetRaise
                    /\ UNCHANGED sim
               ELSE /\ asset_metadata' = MarkCompromised(am, initial_compromise, 0)
                    /\ ret' = RetPending
                    /\ sim' = [pc |-> "steps",
                               t |-> 1,
                               compromised |-> {initial_compromise},
                               sources |-> {},
                               comp_asset |-> Absent,
                               i |-> 0,
                               newly_compromised |-> << >>,
                               timeline |-> <<TimelineEntry(0, <<initial_compromise>>, 1)>>]
    /\ UNCHANGED <<graph, vulnerability_data, heap, snapshot, chain>>

\* for t in range(1, time_steps + 1): newly_compromised = []; list(compromised)
SimTimeStep ==
    /\ sim.pc = "steps"
    /\ sim.t <= args.time_steps
    /\ sim' = [sim EXCEPT !.pc = "sources", !.sources = sim.compromised,
                          !.newly_compromised = << >>]
    /\ UNCHANGED <<graph, asset_metadata, vulnerability_data, heap, snapshot, op, args, ret, chain>>

\* for comp_asset in list(compromised): the list is in the set's iteration
\* order; after the last one the timeline entry of the step is appended
SimNextSource ==
    /\ sim.pc = "sources"
    /\ IF sim.sources = {}
       THEN sim' = [sim EXCEPT !.pc = "steps", !.t = @ + 1,
                               !.timeline = Append(@, TimelineEntry(sim.t,
                                                       sim.newly_compromised,
                                                       Cardinality(sim.compromised)))]
       ELSE \E comp_asset \in sim.sources :
               sim' = [sim EXCEPT !.pc = "neighbors", !.sources = @ \ {comp_asset},
                                  !.comp_asset = comp_asset, !.i = 1]
    /\ UNCHANGED <<graph, asset_metadata, vulnerability_data, heap, snapshot, op, args, ret, chain>>

\* if neighbor in compromised: continue
NeverSkipped(neighbor, compromised) == FALSE

AlreadyCompromised(neighbor, compromised) == neighbor \in compromised

\* the sources of the running step after compromised.add(neighbor): the loop
\* iterates list(compromised), a copy made when the step began
StepSourcesShared(sources, neighbor) == sources \cup {neighbor}

StepSources(sources, neighbor) == sources

\* for neighbor in self.graph.neighbors(comp_asset): one neighbour
SimAttempt ==
    /\ sim.pc = "neighbors"
    /\ LET nbrs == Neighbors(graph, sim.comp_asset)
       IN IF sim.i > Len(nbrs)
          THEN /\ sim' = [sim EXCEPT !.pc = "sources", !.comp_asset = Absent, !.i = 0]
               /\ UNCHANGED <<asset_metadata, ret>>
          ELSE LET neighbor == nbrs[sim.i]
                   prob == PropagationProb(Vulns, neighbor, args.propagation_probability)
               IN IF AlreadyCompromised(neighbor, sim.compromised)
                  THEN /\ sim' = [sim EXCEPT !.i = @ + 1]
                       /\ UNCHANGED <<asset_metadata, ret>>
                  ELSE \E success \in RandomBelow(prob) :
                          IF ~success
                          THEN /\ sim' = [sim EXCEPT !.i = @ + 1]
                               /\ UNCHANGED <<asset_metadata, ret>>
                          ELSE IF neighbor \notin DOMAIN asset_metadata
                          THEN \* compromised.add and newly_compromised.append are
                               \* done, self.asset_metadata[neighbor] is a KeyError
                               /\ sim' = SimIdle
                               /\ ret' = RetRaise
                               /\ UNCHANGED asset_metadata
                          ELSE /\ sim' = [sim EXCEPT
                                             !.i = @ + 1,
                                             !.sources = StepSources(@, neighbor),
                                             !.compromised = @ \cup {neighbor},
                                             !.newly_compromised = Append(@, neighbor)]
                               /\ asset_metadata' =
                                     MarkCompromised(asset_metadata, neighbor, sim.t)
                               /\ UNCHANGED ret
    /\ UNCHANGED <<graph, vulnerability_data, heap, snapshot, op, args, chain>>

\* the statistics and the returned dict; lists built from the set compromised
\* are kept as sets, propagation_rate as <<numerator, denominator>>
SimReturn ==
    /\ sim.pc = "steps"
    /\ sim.t > args.time_steps
    /\ ret' = IF \E aid \in sim.compromised : aid \notin DOMAIN asset_metadata
              THEN RetRaise
              ELSE [kind |-> "ok",
                    initial_compromise |-> args.initial_compromise,
                    simulation_steps |-> args.time_steps,
                    total_compromised |-> Cardinality(sim.compromised),
                    compromised_assets |-> sim.compromised,
                    critical_assets_compromised |->
                        { aid \in sim.compromised :
                            asset_metadata[aid].criticality = "critical" },
                    high_assets_compromised |->
                        { aid \in sim.compromised :
                            asset_metadata[aid].criticality = "high" },
                    timeline |-> sim.timeline,
                    propagation_rate |->
                        IF args.time_steps > 0
                        THEN <<Cardinality(sim.compromised), args.time_steps>>
                        ELSE <<0, 1>>]
    /\ sim' = SimIdle
    /\ UNCHANGED <<graph, asset_metadata, vulnerability_data, heap, snapshot, op, args, chain>>

MaxSimEdges == 2

\* the connections of the simulation runs
SimPairs == {<<"a", "b">>, <<"b", "c">>, <<"a", "c">>, <<"c", "a">>}

VulnCritical == CHOOSE v \in VulnInputs : v.network_exploitable
VulnLocal == CHOOSE v \in VulnInputs : ~v.network_exploitable
VulnInfo == [cve_id |-> "CVE-0", cvss_score |-> 0, exploitable |-> FALSE,
             network_exploitable |-> TRUE]

\* add_vulnerability calls that precede the runs: <<asset_id, entry>>
VulnChoices ==
    { << >>,
      <<<<"b", VulnCritical>>>>,
      <<<<"b", VulnLocal>>>>,
      <<<<"c", VulnInfo>>, <<"c", VulnCritical>>>> }

RECURSIVE AddVulnerabilities(_, _, _)
AddVulnerabilities(vd, calls, i) ==
    IF i > Len(calls) THEN vd
    ELSE AddVulnerabilities(add_vulnerability(vd, calls[i][1], calls[i][2]), calls, i + 1)

InitSim ==
    \E assets \in AssetChoices, es \in SeqsUpTo(SimPairs, MaxSimEdges), calls \in VulnChoices :
        /\ graph = BuildEngine(assets, es).graph
        /\ asset_metadata = BuildEngine(assets, es).asset_metadata
        /\ vulnerability_data = 1
        /\ heap = [r \in Refs |-> IF r = 1 THEN AddVulnerabilities(EmptyDict, calls, 1)
                                  ELSE EmptyDict]
        /\ snapshot = NoSnapshot
        /\ sim = SimIdle
        /\ op = "init"
        /\ args = << >>
        /\ ret = RetNone
        /\ chain = << >>

\* the runs, and between two runs the queries on an asset
NextSim ==
    \/ \E x \in Ids, n \in 0..MaxSteps, p \in Probabilities : SimulateLateralMovement(x, n, p)
    \/ SimTimeStep
    \/ SimNextSource
    \/ SimAttempt
    \/ SimReturn
    \/ \E x \in Ids : FindAttackPathsBfs(x, "c", MaxDepth)
    \/ \E x \in Ids : FindAttackPathsDfs("a", x, MaxDepth)
    \/ \E x \in Ids : CalculateBlastRadius(x, MaxHops)

SpecSim == InitSim /\ [][NextSim]_vars

-----------------------------------------------------------------------------
(* Critical paths: find_critical_paths, _calculate_path_risk *)

TopPaths == 20           \* critical_paths[:20]
CriticalDepth == 8       \* max_depth=8

CritIds == Ids \cup {"d", "e"}

\* the order in which the engines below receive their assets, which is the
\* iteration order of self.asset_metadata
CritOrder == IdOrder \o <<"d", "e">>

\* [aid for aid, meta in self.asset_metadata.items() if meta.get("zone") in ["dmz", "external"]]
EntryPoints(e) ==
    LET entry(aid) == aid \in DOMAIN e.asset_metadata
                      /\ e.asset_metadata[aid].zone \in {"dmz", "external"}
    IN SelectSeq(CritOrder, entry)

\* [aid for aid, meta in self.asset_metadata.items() if meta.get("criticality") == "critical"]
CriticalTargets(e) ==
    LET critical(aid) == aid \in DOMAIN e.asset_metadata
                         /\ e.asset_metadata[aid].criticality = "critical"
    IN SelectSeq(CritOrder, critical)

\* {"critical": 5, "high": 3, "medium": 1, "low": 0}.get(criticality, 1)
CriticalityBonus(crit) ==
    CASE crit = "critical" -> 5
      [] crit = "high" -> 3
      [] crit = "medium" -> 1
      [] crit = "low" -> 0
      [] OTHER -> 1

\* sum of cvss_score * 0.1 over the network-exploitable entries of a list, in
\* 1/100 (a CVSS score in tenths times 0.1 is that many hundredths)
RECURSIVE VulnListBonus(_, _)
VulnListBonus(vulns, i) ==
    IF i > Len(vulns) THEN 0
    ELSE (IF vulns[i].network_exploitable THEN vulns[i].cvss_score ELSE 0)
         + VulnListBonus(vulns, i + 1)

\* vuln_bonus of a path, in 1/100
RECURSIVE PathVulnBonus(_, _, _)
PathVulnBonus(vd, path, i) ==
    IF i > Len(path) THEN 0
    ELSE (IF path[i] \in DOMAIN vd THEN VulnListBonus(vd[path[i]], 1) ELSE 0)
         + PathVulnBonus(vd, path, i + 1)

\* _calculate_path_risk: round(10 / len(path) + vuln_bonus + criticality_bonus, 2),
\* in 1/100
calculate_path_risk(e, vd, path) ==
    IF path = << >> THEN 0
    ELSE LET n == Len(path)
             criticality_bonus == CriticalityBonus(CriticalityOf(e, path[n]))
         IN Round2(1000 + n * PathVulnBonus(vd, path, 1) + 100 * n * criticality_bonus,
                   100 * n)

\* the entries appended for one (entry, target) pair
PairPaths(e, vd, entry, target) ==
    LET paths == find_attack_paths_bfs(e.graph, entry, target, CriticalDepth)
    IN [k \in 1..Len(paths) |->
          [entry_point |-> entry, target |-> target, path |-> paths[k],
           path_length |-> Len(paths[k]),
           risk_score |-> calculate_path_risk(e, vd, paths[k])]]

\* for target in critical_targets: ...
RECURSIVE TargetLoop(_, _, _, _, _)
TargetLoop(e, vd, entry, targets, j) ==
    IF j > Len(targets) THEN << >>
    ELSE PairPaths(e, vd, entry, targets[j]) \o TargetLoop(e, vd, entry, targets, j + 1)

\* for entry in entry_points: ...; the result is critical_paths before the sort
RECURSIVE EntryLoop(_, _, _, _, _)
EntryLoop(e, vd, entries, targets, i) ==
    IF i > Len(entries) THEN << >>
    ELSE TargetLoop(e, vd, entries[i], targets, 1) \o EntryLoop(e, vd, entries, targets, i + 1)

PooledPaths(e, vd) == EntryLoop(e, vd, EntryPoints(e), CriticalTargets(e), 1)

\* the place of x in a list sorted by decreasing risk_score: behind every entry
\* that is not smaller (list.sort is stable, also with reverse=True)
InsertAscending(sorted, x) ==
    LET before(y) == y.risk_score <= x.risk_score
        after(y) == ~before(y)
    IN SelectSeq(sorted, before) \o <<x>> \o SelectSeq(sorted, after)

InsertByRisk(sorted, x) ==
    LET before(y) == y.risk_score >= x.risk_score
        after(y) == ~before(y)
    IN SelectSeq(sorted, before) \o <<x>> \o SelectSeq(sorted, after)

\* critical_paths.sort(key=lambda x: x["risk_score"], reverse=True)
RECURSIVE SortByRisk(_, _, _)
SortByRisk(paths, i, sorted) ==
    IF i > Len(paths) THEN sorted
    ELSE SortByRisk(paths, i + 1, InsertByRisk(sorted, paths[i]))

\* critical_paths[:n]
Take(paths, n) == IF Len(paths) <= n THEN paths ELSE SubSeq(paths, 1, n)

find_critical_paths(e, vd) == Take(SortByRisk(PooledPaths(e, vd), 1, << >>), TopPaths)

FindCriticalPaths ==
    /\ Idle
    /\ op' = "find_critical_paths"
    /\ args' = << >>
    /\ ret' = [kind |-> "critical_paths", paths |-> find_critical_paths(Engine, Vulns)]
    /\ UNCHANGED <<graph, asset_metadata, vulnerability_data, heap, snapshot, sim, chain>>

\* add_connection calls of the engines below, in this order: a chain first,
\* then the remaining forward edges, then two backward ones
CritEdges ==
    << <<"a", "b">>, <<"b", "c">>, <<"c", "d">>, <<"d", "e">>,
       <<"a", "c">>, <<"b", "d">>, <<"c", "e">>, <<"a", "d">>, <<"b", "e">>, <<"a", "e">>,
       <<"b", "a">>, <<"c", "b">> >>

Asset(criticality, zone) ==
    [type |-> "server", name |-> "srv", criticality |-> criticality, zone |-> zone]

\* add_asset calls of the engines below
CritAssetChoices ==
    { \* entry points and targets apart
      << <<"a", Asset("high", "dmz")>>, <<"b", Asset("medium", "external")>>,
         <<"c", Asset("critical", "internal")>>, <<"d", Asset("critical", "restricted")>>,
         <<"e", Asset("critical", "internal")>> >>,
      \* assets that are both entry point and target
      << <<"a", Asset("high", "dmz")>>, <<"b", Asset("critical", "dmz")>>,
         <<"c", Asset("critical", "external")>>, <<"d", Asset("low", "internal")>> >>,
      \* one entry point, one target
      << <<"a", Asset("low", "dmz")>>, <<"b", Asset("high", "internal")>>,
         <<"c", Asset("critical", "internal")>> >>,
      << >> }

InitCritical ==
    \E assets \in CritAssetChoices, k \in 0..Len(CritEdges), calls \in VulnChoices :
        /\ graph = BuildEngine(assets, SubSeq(CritEdges, 1, k)).graph
        /\ asset_metadata = BuildEngine(assets, SubSeq(CritEdges, 1, k)).asset_metadata
        /\ vulnerability_data = 1
        /\ heap = [r \in Refs |-> IF r = 1 THEN AddVulnerabilities(EmptyDict, calls, 1)
                                  ELSE EmptyDict]
        /\ snapshot = NoSnapshot
        /\ sim = SimIdle
        /\ op = "init"
        /\ args = << >>
        /\ ret = RetNone
        /\ chain = << >>

NextCritical == FindCriticalPaths

SpecCritical == InitCritical /\ [][NextCritical]_vars

-----------------------------------------------------------------------------
(* Properties of the blast radius *)

\* nodes within k directed edges of x
RECURSIVE Within(_, _, _)
Within(g, x, k) ==
    IF k = 0 THEN {x}
    ELSE LET W == Within(g, x, k - 1)
         IN W \cup { n \in g.nodes : \E m \in W : IsEdge(g, m, n) }

\* nodes at shortest directed distance exactly h from x
AtDistance(g, x, h) == IF h = 0 THEN {x} ELSE Within(g, x, h) \ Within(g, x, h - 1)

LayerWeight(e, x, h) ==
    SumOver(AtDistance(e.graph, x, h),
            [n \in Ids |-> CriticalityWeight(CriticalityOf(e, n))])

\* sum over h = 1..max_hops of LayerWeight(h) / (h + 1), in 1/RiskUnit
RiskOverHops(e, x, max_hops) ==
    SumOver(1..max_hops,
            [h \in 1..max_hops |-> LayerWeight(e, x, h) * (RiskUnit(max_hops) \div (h + 1))])

IsBlastResult == op = "calculate_blast_radius" /\ ret.kind = "ok"

\* C4: risk_score is the sum over the hops 1..max_hops only of the criticality
\* weights of the nodes first reached at that hop times 1/(hop+1); the analysed
\* asset itself adds nothing, so max_hops = 0 gives 0 affected assets and risk 0.
C4_RiskExcludesHopZero ==
    IsBlastResult =>
        /\ ret.risk_score = Round2(RiskOverHops(Engine, args.asset_id, args.max_hops),
                                   RiskUnit(args.max_hops))
        /\ args.max_hops = 0 => ret.total_affected_assets = 0 /\ ret.risk_score = 0

-----------------------------------------------------------------------------
(* Properties of the path finders *)

IsPathCall == op \in {"find_attack_paths_bfs", "find_attack_paths_dfs"}

NoDuplicates(paths) ==
    \A i \in 1..Len(paths), j \in 1..Len(paths) : i # j => paths[i] # paths[j]

\* a directed path of g from s to t that repeats no node
IsSimplePath(g, p, s, t) ==
    /\ Len(p) >= 1
    /\ p[1] = s
    /\ p[Len(p)] = t
    /\ \A i \in 1..(Len(p) - 1) : IsEdge(g, p[i], p[i + 1])
    /\ \A i \in 1..Len(p), j \in 1..Len(p) : i # j => p[i] # p[j]
    /\ \A i \in 1..Len(p) : p[i] \in g.nodes

SimplePaths(g, s, t) ==
    { p \in UNION { [1..k -> Ids] : k \in 1..Cardinality(Ids) } : IsSimplePath(g, p, s, t) }

\* C1: for the same graph, start, target and max_depth the BFS finder and the
\* DFS finder return the same set of paths, and neither lists a path twice.
C1_BfsDfsSamePaths ==
    /\ op = "find_attack_paths_bfs" =>
          /\ SeqSet(ret.paths) =
                SeqSet(find_attack_paths_dfs(graph, args.start_id, args.target_id,
                                             args.max_depth))
          /\ NoDuplicates(ret.paths)
    /\ op = "find_attack_paths_dfs" =>
          /\ SeqSet(ret.paths) =
                SeqSet(find_attack_paths_bfs(graph, args.start_id, args.target_id,
                                             args.max_depth))
          /\ NoDuplicates(ret.paths)

\* a BFS call that found several paths, listed in another order than DFS lists them
C1_Witness ==
    /\ op = "find_attack_paths_bfs"
    /\ Len(ret.paths) >= 2
    /\ ret.paths # find_attack_paths_dfs(graph, args.start_id, args.target_id,
                                         args.max_depth)

\* C2: every returned path starts at start, ends at target, follows directed
\* edges of the graph, repeats no node and has at most max_depth nodes.
C2_PathsAreSimple ==
    IsPathCall =>
        \A i \in 1..Len(ret.paths) :
            /\ IsSimplePath(graph, ret.paths[i], args.start_id, args.target_id)
            /\ Len(ret.paths[i]) <= args.max_depth

\* a call on a graph with a cycle through the start that returned a path of three nodes
C2_Witness ==
    /\ IsPathCall
    /\ \E i \in 1..Len(ret.paths) : Len(ret.paths[i]) = 3
    /\ \E n \in graph.nodes : IsEdge(graph, n, args.start_id)

\* C3 as stated: every simple path from start to target with at most
\* max_depth edges is in the result.
C3_AllPathsWithinHops ==
    IsPathCall =>
        \A p \in SimplePaths(graph, args.start_id, args.target_id) :
            Len(p) - 1 <= args.max_depth => p \in SeqSet(ret.paths)

\* C3 amended: every simple path from start to target with at most max_depth
\* nodes (max_depth - 1 edges) is in the result.
C3_AllPathsWithinNodes ==
    IsPathCall =>
        \A p \in SimplePaths(graph, args.start_id, args.target_id) :
            Len(p) <= args.max_depth => p \in SeqSet(ret.paths)

\* a call that returned a path of exactly max_depth nodes while a longer
\* simple path to the target exists
C3_Witness ==
    /\ IsPathCall
    /\ \E i \in 1..Len(ret.paths) :
          Len(ret.paths[i]) = args.max_depth /\ args.max_depth >= 2
    /\ \E p \in SimplePaths(graph, args.start_id, args.target_id) :
          Len(p) > args.max_depth

-----------------------------------------------------------------------------
(* Properties of the lateral movement simulation *)

IsSimCall == op = "simulate_lateral_movement"

\* the call has ended, by a return or by an exception
SimEnded == IsSimCall /\ sim.pc = "idle"

SimReturned == SimEnded /\ ret.kind = "ok"

\* nodes reachable from x by directed edges, x included
Reachable(g, x) == Within(g, x, Cardinality(Ids))

\* shortest directed distance from u to v, for v reachable from u
Distance(g, u, v) == CHOOSE k \in 0..Cardinality(Ids) : v \in AtDistance(g, u, k)

\* the largest distance between two nodes of the component reachable from x
Diameter(g, x) ==
    LET F == { u \in Reachable(g, x) \X Reachable(g, x) : u[2] \in Reachable(g, u[1]) }
        L == { Distance(g, u[1], u[2]) : u \in F }
    IN CHOOSE m \in L : \A k \in L : k <= m

Flagged(am) == { aid \in DOMAIN am : am[aid].compromised }

C6_FullSpreadAtDiameter ==
    (/\ SimEnded
     /\ ret.kind # "error"
     /\ args.propagation_probability = 1000
     /\ args.time_steps = Diameter(graph, args.initial_compromise))
    => /\ ret.kind = "ok"
       /\ ret.compromised_assets = Reachable(graph, args.initial_compromise)

\* C7: the step that starts a run leaves every asset but the initial one
\* unflagged with no compromise time and the initial one flagged at time 0;
\* every later step of the run keeps each set flag and its compromise time.
C7_ResetThenMonotonic ==
    [][ /\ (sim.pc = "idle" /\ op' = "simulate_lateral_movement" /\ ret'.kind # "error") =>
              \A aid \in DOMAIN asset_metadata' :
                  IF aid = args'.initial_compromise
                  THEN /\ asset_metadata'[aid].compromised
                       /\ asset_metadata'[aid].compromise_time = 0
                  ELSE /\ ~asset_metadata'[aid].compromised
                       /\ asset_metadata'[aid].compromise_time = NoTime
        /\ sim.pc # "idle" =>
              /\ DOMAIN asset_metadata' = DOMAIN asset_metadata
              /\ \A aid \in Flagged(asset_metadata) :
                    /\ asset_metadata'[aid].compromised
                    /\ asset_metadata'[aid].compromise_time =
                          asset_metadata[aid].compromise_time
              /\ sim'.pc # "idle" => sim.compromised \subseteq sim'.compromised
      ]_vars

\* the second step of a run: an asset flagged at step 1, next to one not flagged
C7_Witness ==
    /\ sim.pc = "neighbors"
    /\ sim.t = 2
    /\ \E aid \in Flagged(asset_metadata) : asset_metadata[aid].compromise_time = 1
    /\ \E aid \in DOMAIN asset_metadata : ~asset_metadata[aid].compromised
    /\ Flagged(asset_metadata) = sim.compromised

\* the asset ids a call refers to
ReferencedIds(o, a) ==
    CASE o \in {"find_attack_paths_bfs", "find_attack_paths_dfs"} -> {a.start_id, a.target_id}
      [] o = "calculate_blast_radius" -> {a.asset_id}
      [] o = "simulate_lateral_movement" -> {a.initial_compromise}
      [] OTHER -> {}

\* C8: a call of a path finder, of calculate_blast_radius or of
\* simulate_lateral_movement that refers to an id absent from the graph returns
\* the empty list, respectively the not-found value, raises nothing and leaves
\* the graph, the asset metadata with its flags and the registry as they were.
C8_NotFoundLeavesState ==
    [][ (sim.pc = "idle" /\ ~(ReferencedIds(op', args') \subseteq graph.nodes)) =>
            /\ IF op' \in {"find_attack_paths_bfs", "find_attack_paths_dfs"}
               THEN ret' = [kind |-> "paths", paths |-> << >>]
               ELSE ret' = [kind |-> "error"]
            /\ sim'.pc = "idle"
            /\ UNCHANGED <<graph, asset_metadata, vulnerability_data, heap>>
      ]_vars

\* a not-found result of simulate_lateral_movement while flags of an earlier run are set
C8_Witness ==
    /\ SimEnded
    /\ ret.kind = "error"
    /\ args.initial_compromise \notin graph.nodes
    /\ Cardinality(Flagged(asset_metadata)) >= 2

-----------------------------------------------------------------------------
(* Properties of the snapshots *)

NodeIds(s) == { s.nodes[i].id : i \in 1..Len(s.nodes) }

\* an edge whose endpoint is not among the nodes, two entries with one id,
\* or an entry without a required key
Inconsistent(s) ==
    \/ \E i \in 1..Len(s.edges) :
          s.edges[i].source \notin NodeIds(s) \/ s.edges[i].target \notin NodeIds(s)
    \/ \E i \in 1..Len(s.nodes), j \in 1..Len(s.nodes) :
          i # j /\ s.nodes[i].id = s.nodes[j].id
    \/ \E i \in 1..Len(s.nodes) : s.nodes[i].id = Absent
    \/ \E i \in 1..Len(s.edges) :
          s.edges[i].source = Absent \/ s.edges[i].target = Absent

\* C9: importing, into the engine it was exported from, the snapshot that
\* export_to_dict has just returned leaves the node set, the edges with their
\* attributes and the vulnerability map as they were.
C9_RoundTripSameEngine ==
    [][ (op = "export_to_dict" /\ op' = "import_from_dict") =>
            /\ graph'.nodes = graph.nodes
            /\ graph'.data = graph.data
            /\ heap'[vulnerability_data'] = heap[vulnerability_data]
      ]_vars

\* C10: import_from_dict of an inconsistent snapshot is rejected and leaves
\* the graph, the asset metadata and the vulnerability registry as they were.
C10_InconsistentImportRejected ==
    [][ (op' = "import_from_dict" /\ snapshot.held /\ Inconsistent(snapshot)) =>
            /\ ret'.kind = "raise"
            /\ graph' = graph
            /\ asset_metadata' = asset_metadata
            /\ heap'[vulnerability_data'] = heap[vulnerability_data]
      ]_vars

\* the <<source, target>> pairs a snapshot lists
EdgePairs(s) == { <<s.edges[i].source, s.edges[i].target>> : i \in 1..Len(s.edges) }

\* the vulnerability map a snapshot lists: none without the "vulnerabilities" key
ListedVulns(s, h) == IF s.vulnerabilities = NoRef THEN EmptyDict ELSE h[s.vulnerabilities]

\* C11: after an import_from_dict call that returned, the node set, the edge
\* set and the vulnerability map of the engine are exactly those the snapshot
\* listed when it was passed, whatever the engine held before.
C11_ImportReplaces ==
    [][ (op' = "import_from_dict" /\ ret'.kind = "none") =>
            /\ graph'.nodes = NodeIds(snapshot)
            /\ DOMAIN graph'.data = EdgePairs(snapshot)
            /\ heap'[vulnerability_data'] = ListedVulns(snapshot, heap)
      ]_vars

-----------------------------------------------------------------------------
(* Properties of the critical paths *)

IsCriticalResult == op = "find_critical_paths"

\* C12: find_critical_paths returns at most 20 entries, in order of
\* non-increasing risk_score, and every computed entry that is not returned
\* has a risk_score no greater than that of any returned entry.
C12_TopTwentyByRisk ==
    IsCriticalResult =>
        LET computed == PooledPaths(Engine, Vulns)
        IN /\ Len(ret.paths) <= 20
           /\ \A i \in 1..(Len(ret.paths) - 1) :
                 ret.paths[i].risk_score >= ret.paths[i + 1].risk_score
           /\ SeqSet(ret.paths) \subseteq SeqSet(computed)
           /\ \A x \in SeqSet(computed) \ SeqSet(ret.paths) :
                 \A i \in 1..Len(ret.paths) : x.risk_score <= ret.paths[i].risk_score

\* more than 20 paths were computed, of several risk scores, between entry
\* points and targets that are different assets, and 20 were returned
C12_Witness ==
    /\ IsCriticalResult
    /\ Len(PooledPaths(Engine, Vulns)) > 20
    /\ Len(ret.paths) = 20
    /\ ret.paths[1].risk_score > ret.paths[20].risk_score
    /\ \A i \in 1..Len(PooledPaths(Engine, Vulns)) :
          PooledPaths(Engine, Vulns)[i].entry_point # PooledPaths(Engine, Vulns)[i].target
    /\ \E i \in 1..(Len(PooledPaths(Engine, Vulns)) - 1) :
          PooledPaths(Engine, Vulns)[i].risk_score < PooledPaths(Engine, Vulns)[i + 1].risk_score

\* C13: no returned entry has entry_point equal to target, and every returned
\* path has at least two nodes.
C13_EntryDiffersFromTarget ==
    IsCriticalResult =>
        \A i \in 1..Len(ret.paths) :
            /\ ret.paths[i].entry_point # ret.paths[i].target
            /\ ret.paths[i].path_length >= 2
            /\ Len(ret.paths[i].path) >= 2

-----------------------------------------------------------------------------
(* Properties of the ingestion *)

\* C14: add_asset on an id that is already a node returns normally and leaves
\* the nodes, every edge with its attributes, the vulnerability registry and
\* the records of all other assets as they were.
C14_ReAddKeepsEdgesAndVulns ==
    [][ (op' = "add_asset" /\ args'.asset_id \in graph.nodes) =>
            /\ ret'.kind = "none"
            /\ graph' = graph
            /\ vulnerability_data' = vulnerability_data
            /\ heap' = heap
            /\ DOMAIN asset_metadata' = DOMAIN asset_metadata \cup {args'.asset_id}
            /\ \A other \in DOMAIN asset_metadata \ {args'.asset_id} :
                  asset_metadata'[other] = asset_metadata[other]
      ]_vars

\* add_asset was the last call, on an asset that has an outgoing edge, an
\* incoming edge from another asset and a vulnerability entry
C14_Witness ==
    /\ op = "add_asset"
    /\ \E other \in graph.nodes \ {args.asset_id} :
          IsEdge(graph, args.asset_id, other) /\ IsEdge(graph, other, args.asset_id)
    /\ args.asset_id \in DOMAIN Vulns
    /\ asset_metadata[args.asset_id].criticality = "critical"

\* C15: both endpoints of every edge have an asset metadata record, and the
\* graph nodes are exactly the ids that have a record.
C15_NodesAreAssets ==
    /\ \A edge \in DOMAIN graph.data :
          edge[1] \in DOMAIN asset_metadata /\ edge[2] \in DOMAIN asset_metadata
    /\ graph.nodes = DOMAIN asset_metadata

\* C16: every asset id that is a key of the vulnerability registry is a node
\* of the graph.
C16_VulnerabilitiesOnNodes == DOMAIN Vulns \subseteq graph.nodes

\* the list of asset_id in the registry vd, empty when it has none
VulnList(vd, asset_id) == IF asset_id \in DOMAIN vd THEN vd[asset_id] ELSE << >>

\* C17: add_vulnerability appends the given entry at the end of the asset's
\* list, whatever the list holds, and changes no other list, no record and
\* nothing of the graph.
C17_AppendsOneEntry ==
    [][ op' = "add_vulnerability" =>
            /\ vulnerability_data' = vulnerability_data
            /\ VulnList(Vulns', args'.asset_id) =
                  Append(VulnList(Vulns, args'.asset_id), args'.vulnerability)
            /\ DOMAIN Vulns' = DOMAIN Vulns \cup {args'.asset_id}
            /\ \A other \in DOMAIN Vulns \ {args'.asset_id} : Vulns'[other] = Vulns[other]
            /\ graph' = graph
            /\ asset_metadata' = asset_metadata
      ]_vars

\* add_vulnerability was the last call and the list now ends with two entries
\* of the same CVE
C17_Witness ==
    /\ op = "add_vulnerability"
    /\ LET l == VulnList(Vulns, args.asset_id)
       IN /\ Len(l) >= 2
          /\ l[Len(l)] = args.vulnerability
          /\ l[Len(l) - 1].cve_id = args.vulnerability.cve_id

-----------------------------------------------------------------------------
(* Criticality tiers: the ingestion paths and calculate_blast_radius *)

\* POST /assets: asset_type, name, criticality and zone are plain str
\* parameters handed unchanged to add_asset; "core_backend" is the word the
\* asset inventory uses for a criticality
RouteAssetInputs ==
    { AssetHigh, AssetLow,
      [type |-> "server", name |-> "api", criticality |-> "core_backend",
       zone |-> "internal"] }

\* POST /import bodies: import_from_dict stores node.get("criticality", "medium")
TierLiterals ==
    { [nodes |-> <<NodeLit("a"), NodeLit("b")>>, edges |-> <<EdgeLit("a", "b")>>,
       hasVulns |-> FALSE, vulns |-> EmptyDict],
      [nodes |-> <<NodeLit("a"), [NodeLit("b") EXCEPT !.criticality = "crm_hr"]>>,
       edges |-> <<EdgeLit("a", "b")>>, hasVulns |-> FALSE, vulns |-> EmptyDict] }

\* the hourly job: AssetService.list_assets has no parameter "limit", so the
\* call list_assets(limit=1000) raises TypeError before the add_asset loop; the
\* except clause logs it and the job returns None with the engine untouched
SyncDigitalTwinJob ==
    /\ Idle
    /\ op' = "sync_digital_twin_job"
    /\ args' = << >>
    /\ ret' = RetNone
    /\ UNCHANGED <<graph, asset_metadata, vulnerability_data, heap, snapshot, sim, chain>>

NextTiers ==
    \/ \E id \in IngestIds, inp \in RouteAssetInputs : AddAsset(id, inp)
    \/ \E s \in IngestIds, t \in IngestIds : AddConnection(s, t, DefaultConn, FALSE)
    \/ \E lit \in TierLiterals : CallerSnapshot(lit)
    \/ ImportFromDict
    \/ SyncDigitalTwinJob
    \/ \E x \in IngestIds, h \in 1..MaxHops : CalculateBlastRadius(x, h)

SpecTiers == Init /\ [][NextTiers]_vars

\* C18: in every reachable state the criticality of every asset node is one of
\* critical, high, medium, low, whichever ingestion path stored it, and
\* calculate_blast_radius returns a result for every existing asset
C18_CriticalityIsATier ==
    /\ \A aid \in graph.nodes \cap DOMAIN asset_metadata :
          asset_metadata[aid].criticality \in Tiers
    /\ (op = "calculate_blast_radius" /\ args.asset_id \in graph.nodes) => ret.kind = "ok"

-----------------------------------------------------------------------------
(* Properties of argument validation *)

\* the bounds the routes declare for the analysis arguments, as <<ge, le>>:
\* time_steps Query(10, ge=1, le=100), propagation_probability Query(0.3,
\* ge=0.0, le=1.0) in 1/1000, max_hops Query(3, ge=1, le=10), max_depth
\* Query(10, ge=1, le=20)
ConfiguredBounds ==
    [time_steps |-> <<1, 100>>, propagation_probability |-> <<0, 1000>>,
     max_hops |-> <<1, 10>>, max_depth |-> <<1, 20>>]

Outside(value, bounds) == value < bounds[1] \/ value > bounds[2]

\* the call o with arguments a has an argument outside its bounds
OutOfBounds(o, a) ==
    CASE o = "simulate_lateral_movement" ->
             \/ Outside(a.time_steps, ConfiguredBounds.time_steps)
             \/ Outside(a.propagation_probability, ConfiguredBounds.propagation_probability)
      [] o = "calculate_blast_radius" -> Outside(a.max_hops, ConfiguredBounds.max_hops)
      [] o \in {"find_attack_paths_bfs", "find_attack_paths_dfs"} ->
             Outside(a.max_depth, ConfiguredBounds.max_depth)
      [] OTHER -> FALSE

\* C19: a simulate_lateral_movement, calculate_blast_radius or find_attack_paths
\* call with an argument outside its bounds is rejected before any work begins:
\* it returns the rejection (or "Asset not found", whichever test comes first),
\* starts no run and resets or sets no compromise flag
C19_OutOfBoundsRejected ==
    [][(Idle /\ OutOfBounds(op', args')) =>
           /\ ret'.kind \in {"invalid_argument", "error"}
           /\ sim' = SimIdle
           /\ asset_metadata' = asset_metadata]_vars

-----------------------------------------------------------------------------
(* The results simulate_lateral_movement can return on one engine *)

\* the locals of a run: compromised, newly_compromised, timeline; raised is set
\* when self.asset_metadata[neighbor] is a KeyError
RunStart(initial_compromise) ==
    [compromised |-> {initial_compromise},
     newly_compromised |-> << >>,
     timeline |-> <<TimelineEntry(0, <<initial_compromise>>, 1)>>,
     raised |-> FALSE]

\* for neighbor in self.graph.neighbors(comp_asset), from the i-th neighbour on:
\* every value the draws "random.random() < prob" can take
RECURSIVE RunNeighbors(_, _, _, _, _, _, _)
RunNeighbors(e, vd, propagation_probability, t, nbrs, i, run) ==
    IF run.raised \/ i > Len(nbrs) THEN {run}
    ELSE LET neighbor == nbrs[i]
             prob == PropagationProb(vd, neighbor, propagation_probability)
             After(success) ==
                 IF ~success THEN run
                 ELSE IF neighbor \notin DOMAIN e.asset_metadata
                 THEN [run EXCEPT !.raised = TRUE]
                 ELSE [run EXCEPT !.compromised = @ \cup {neighbor},
                                  !.newly_compromised = Append(@, neighbor)]
         IN IF AlreadyCompromised(neighbor, run.compromised)
            THEN RunNeighbors(e, vd, propagation_probability, t, nbrs, i + 1, run)
            ELSE UNION { RunNeighbors(e, vd, propagation_probability, t, nbrs, i + 1,
                                      After(success)) :
                         success \in RandomBelow(prob) }

\* for comp_asset in list(compromised): the list in any iteration order
RECURSIVE RunSources(_, _, _, _, _, _)
RunSources(e, vd, propagation_probability, t, sources, run) ==
    IF run.raised \/ sources = {} THEN {run}
    ELSE UNION { UNION { RunSources(e, vd, propagation_probability, t,
                                    sources \ {comp_asset}, after) :
                         after \in RunNeighbors(e, vd, propagation_probability, t,
                                                Neighbors(e.graph, comp_asset), 1, run) } :
                 comp_asset \in sources }

\* for t in range(1, time_steps + 1), from step t on
RECURSIVE RunSteps(_, _, _, _, _, _)
RunSteps(e, vd, propagation_probability, time_steps, t, run) ==
    IF run.raised \/ t > time_steps THEN {run}
    ELSE UNION { RunSteps(e, vd, propagation_probability, time_steps, t + 1,
                          [after EXCEPT !.timeline =
                              IF after.raised THEN @
                              ELSE Append(@, TimelineEntry(t, after.newly_compromised,
                                                           Cardinality(after.compromised)))]) :
                 after \in RunSources(e, vd, propagation_probability, t, run.compromised,
                                      [run EXCEPT !.newly_compromised = << >>]) }

\* what a caller compares of a returned dict
RunResult(kind, compromised, timeline) ==
    IF kind = "ok" THEN [kind |-> kind, compromised_assets |-> compromised,
                         timeline |-> timeline]
    ELSE [kind |-> kind]

\* every result a call simulate_lateral_movement(initial_compromise, time_steps,
\* propagation_probability) can return on the engine e with the registry vd
simulate_lateral_movement(e, vd, initial_compromise, time_steps, propagation_probability) ==
    IF ~SimAssetFound(e.graph, initial_compromise) THEN {[kind |-> "error"]}
    ELSE IF initial_compromise \notin DOMAIN e.asset_metadata THEN {[kind |-> "raise"]}
    ELSE { RunResult(IF run.raised THEN "raise" ELSE "ok", run.compromised, run.timeline) :
           run \in RunSteps(e, vd, propagation_probability, time_steps, 1,
                            RunStart(initial_compromise)) }

-----------------------------------------------------------------------------
(* Properties of reproducibility *)

\* the finished call returned one of the results of simulate_lateral_movement
ReturnedIsAResult ==
    SimReturned =>
        RunResult(ret.kind, ret.compromised_assets, ret.timeline) \in
            simulate_lateral_movement(Engine, Vulns, args.initial_compromise,
                                      args.time_steps, args.propagation_probability)

\* C20: two simulate_lateral_movement runs on the same graph and registry with
\* the same initial_compromise, time_steps and propagation_probability return
\* the same compromised set and the same timeline: every run these arguments
\* allow returns what the finished run returned
C20_SameInputsSameResult ==
    (SimReturned /\ ret.kind = "ok") =>
        \A other \in simulate_lateral_movement(Engine, Vulns, args.initial_compromise,
                                               args.time_steps,
                                               args.propagation_probability) :
            other = RunResult(ret.kind, ret.compromised_assets, ret.timeline)

-----------------------------------------------------------------------------
(* Properties of the propagation order *)

\* a run is under way or has returned: the flags are those of this run
RunFlags == IsSimCall /\ ret.kind \in {"pending", "ok"}

\* C24: in a lateral-movement run every node compromised at a step t >= 1 has
\* an incoming edge from a node compromised at a step before t; so a node at
\* shortest directed distance d from the initial node is not compromised before
\* step d, and the returned compromised set lies within distance time_steps of
\* the initial node
C24_SpreadsFromEarlierSteps ==
    RunFlags =>
        /\ \A aid \in Flagged(asset_metadata) :
              LET t == asset_metadata[aid].compromise_time
              IN /\ t = 0 <=> aid = args.initial_compromise
                 /\ t >= 1 =>
                       \E u \in Flagged(asset_metadata) :
                           /\ IsEdge(graph, u, aid)
                           /\ asset_metadata[u].compromise_time < t
                 /\ aid \in Reachable(graph, args.initial_compromise)
                 /\ t >= Distance(graph, args.initial_compromise, aid)
        /\ ret.kind = "ok" =>
              /\ ret.compromised_assets = Flagged(asset_metadata)
              /\ ret.compromised_assets \subseteq
                     Within(graph, args.initial_compromise, IF args.time_steps > 0
                                                            THEN args.time_steps ELSE 0)

\* a returned run with probability 1 along a -> b -> c: b falls at step 1 and c,
\* next to b, only at step 2
C24_Witness ==
    /\ SimReturned
    /\ args.propagation_probability = 1000
    /\ \E u \in Flagged(asset_metadata), v \in Flagged(asset_metadata) :
          /\ asset_metadata[u].compromise_time = 1
          /\ asset_metadata[v].compromise_time = 2
          /\ IsEdge(graph, u, v)
          /\ Distance(graph, args.initial_compromise, v) = 2

-----------------------------------------------------------------------------
(* Properties of the blast radius layers *)

\* C25: calculate_blast_radius lists a node at hop h (1 <= h <= max_hops)
\* exactly when its shortest directed distance from asset_id is h; each node is
\* counted at one hop only, asset_id is never counted as affected, and
\* total_affected_assets is the sum of the affected_by_hop counts and the sum
\* of the affected_by_criticality counts
C25_LayersAreDistances ==
    IsBlastResult =>
        LET x == args.asset_id
            hops == 1..args.max_hops
            reachable_by_hop == ReachableByHop(graph, x, args.max_hops)
            affected == UNION { AtDistance(graph, x, h) : h \in hops }
        IN /\ DOMAIN ret.affected_by_hop = hops
           /\ \A h \in hops :
                 /\ SeqSet(reachable_by_hop[h]) = AtDistance(graph, x, h)
                 /\ Len(reachable_by_hop[h]) = Cardinality(AtDistance(graph, x, h))
                 /\ ret.affected_by_hop[h] = Cardinality(AtDistance(graph, x, h))
           /\ x \notin affected
           /\ ret.total_affected_assets = Cardinality(affected)
           /\ ret.total_affected_assets = SumOver(hops, ret.affected_by_hop)
           /\ ret.total_affected_assets = SumOver(Tiers, ret.affected_by_criticality)
           /\ SeqSet(ret.critical_assets_at_risk) \cup SeqSet(ret.high_assets_at_risk)
                 \subseteq affected

\* a result over two hops from an asset on a cycle, with an asset at hop 2
C25_Witness ==
    /\ IsBlastResult
    /\ args.max_hops = 2
    /\ \E m \in graph.nodes \ {args.asset_id} :
          IsEdge(graph, args.asset_id, m) /\ IsEdge(graph, m, args.asset_id)
    /\ ret.affected_by_hop[2] >= 1
    /\ ret.total_affected_assets = 2

-----------------------------------------------------------------------------
(* Runs on engines where an asset has several compromised predecessors *)

\* a -> b, a -> c, b -> c: once a and b are compromised both attempt c
TimelineEdges == <<<<"a", "b">>, <<"a", "c">>, <<"b", "c">>>>

InitTimeline ==
    \E assets \in AssetChoices, k \in 0..Len(TimelineEdges), calls \in VulnChoices :
        /\ graph = BuildEngine(assets, SubSeq(TimelineEdges, 1, k)).graph
        /\ asset_metadata = BuildEngine(assets, SubSeq(TimelineEdges, 1, k)).asset_metadata
        /\ vulnerability_data = 1
        /\ heap = [r \in Refs |-> IF r = 1 THEN AddVulnerabilities(EmptyDict, calls, 1)
                                  ELSE EmptyDict]
        /\ snapshot = NoSnapshot
        /\ sim = SimIdle
        /\ op = "init"
        /\ args = << >>
        /\ ret = RetNone
        /\ chain = << >>

NextTimeline ==
    \/ \E x \in Ids, n \in 0..MaxSteps, p \in Probabilities : SimulateLateralMovement(x, n, p)
    \/ SimTimeStep
    \/ SimNextSource
    \/ SimAttempt
    \/ SimReturn

SpecTimeline == InitTimeline /\ [][NextTimeline]_vars

-----------------------------------------------------------------------------
(* Properties of the timeline *)

\* the ids of the newly_compromised lists of a timeline, in order
RECURSIVE AllNewlyCompromised(_, _)
AllNewlyCompromised(timeline, i) ==
    IF i > Len(timeline) THEN << >>
    ELSE timeline[i].newly_compromised \o AllNewlyCompromised(timeline, i + 1)

\* C26: the returned timeline has one entry per step in increasing order, step
\* 0 for the initial compromise and then the steps 1..time_steps; the total of
\* each entry is the total of the entry before it plus the number of ids in its
\* newly_compromised list; no id is in newly_compromised more than once over
\* the whole timeline; the last total is the size of the returned compromised set
C26_TimelineAddsUp ==
    SimReturned =>
        LET timeline == ret.timeline
            ids == AllNewlyCompromised(timeline, 1)
        IN /\ Len(timeline) = args.time_steps + 1
           /\ \A i \in 1..Len(timeline) : timeline[i].time_step = i - 1
           /\ timeline[1].newly_compromised = <<args.initial_compromise>>
           /\ timeline[1].total_compromised = 1
           /\ \A i \in 2..Len(timeline) :
                 timeline[i].total_compromised =
                     timeline[i - 1].total_compromised + Len(timeline[i].newly_compromised)
           /\ NoDuplicates(ids)
           /\ SeqSet(ids) = ret.compromised_assets
           /\ timeline[Len(timeline)].total_compromised = Cardinality(ret.compromised_assets)
           /\ ret.total_compromised = Cardinality(ret.compromised_assets)

\* a returned run in which c, compromised at step 2, had the two compromised
\* predecessors a and b
C26_Witness ==
    /\ SimReturned
    /\ args.initial_compromise = "a"
    /\ IsEdge(graph, "a", "c") /\ IsEdge(graph, "b", "c")
    /\ Len(ret.timeline) = 3
    /\ ret.timeline[2].newly_compromised = <<"b">>
    /\ ret.timeline[3].newly_compromised = <<"c">>

-----------------------------------------------------------------------------
(* Statistics: get_network_stats *)

\* _count_by_attribute: counts over self.asset_metadata.values()
count_by_attribute(am, attribute) ==
    [value \in { am[aid][attribute] : aid \in DOMAIN am } |->
        Cardinality({ aid \in DOMAIN am : am[aid][attribute] = value })]

\* nx.density of a directed graph, as <<numerator, denominator>>
Density(g) ==
    LET n == Cardinality(g.nodes)
        m == NumEdges(g)
    IN IF m = 0 \/ n <= 1 THEN <<0, 1>> ELSE <<m, n * (n - 1)>>

\* nodes joined to x by edges taken in either direction
RECURSIVE WeakComponent(_, _)
WeakComponent(g, S) ==
    LET T == S \cup { n \in g.nodes : \E m \in S : IsEdge(g, m, n) \/ IsEdge(g, n, m) }
    IN IF T = S THEN S ELSE WeakComponent(g, T)

\* nx.is_weakly_connected, for a graph with at least one node
IsWeaklyConnected(g) ==
    LET x == CHOOSE n \in g.nodes : TRUE
    IN WeakComponent(g, {x}) = g.nodes

get_network_stats(e, vd) ==
    [kind |-> "stats",
     total_assets |-> Cardinality(e.graph.nodes),
     total_connections |-> NumEdges(e.graph),
     assets_with_vulnerabilities |-> Cardinality(DOMAIN vd),
     total_vulnerabilities |-> NumVulns(vd),
     assets_by_zone |-> count_by_attribute(e.asset_metadata, "zone"),
     assets_by_criticality |-> count_by_attribute(e.asset_metadata, "criticality"),
     assets_by_type |-> count_by_attribute(e.asset_metadata, "type"),
     graph_density |-> IF Cardinality(e.graph.nodes) > 0 THEN Density(e.graph) ELSE <<0, 1>>,
     is_connected |-> IF Cardinality(e.graph.nodes) > 0 THEN IsWeaklyConnected(e.graph)
                      ELSE FALSE]

GetNetworkStats ==
    /\ Idle
    /\ op' = "get_network_stats"
    /\ args' = << >>
    /\ ret' = get_network_stats(Engine, Vulns)
    /\ UNCHANGED <<graph, asset_metadata, vulnerability_data, heap, snapshot, sim, chain>>

\* ingestion followed by the statistics
NextStats ==
    \/ \E id \in IngestIds, inp \in AssetInputs : AddAsset(id, inp)
    \/ \E s \in IngestIds, t \in IngestIds, c \in ConnCalls :
          AddConnection(s, t, c.inp, c.bidirectional)
    \/ \E id \in IngestIds, v \in VulnInputs : AddVulnerability(id, v)
    \/ GetNetworkStats

SpecStats == Init /\ [][NextStats]_vars

-----------------------------------------------------------------------------
(* Properties of the statistics *)

IsStatsResult == op = "get_network_stats" /\ ret.kind = "stats"

\* C30: in every get_network_stats result the counts in assets_by_zone sum to
\* total_assets, and so do the counts in assets_by_criticality and in
\* assets_by_type
C30_CountsSumToTotal ==
    IsStatsResult =>
        /\ SumOver(DOMAIN ret.assets_by_zone, ret.assets_by_zone) = ret.total_assets
        /\ SumOver(DOMAIN ret.assets_by_criticality, ret.assets_by_criticality)
              = ret.total_assets
        /\ SumOver(DOMAIN ret.assets_by_type, ret.assets_by_type) = ret.total_assets

-----------------------------------------------------------------------------
(* The read-only queries between simulation runs *)

\* a run from a with one step that compromises every neighbour, which leaves
\* compromise flags behind, and the six queries
NextQueries ==
    \/ SimulateLateralMovement("a", 1, 1000)
    \/ SimTimeStep
    \/ SimNextSource
    \/ SimAttempt
    \/ SimReturn
    \/ \E s \in Ids, t \in Ids : FindAttackPathsBfs(s, t, MaxDepth)
    \/ \E s \in Ids, t \in Ids : FindAttackPathsDfs(s, t, MaxDepth)
    \/ \E x \in Ids : CalculateBlastRadius(x, MaxHops)
    \/ FindCriticalPaths
    \/ GetNetworkStats
    \/ ExportToDict

SpecQueries == InitTimeline /\ [][NextQueries]_vars

-----------------------------------------------------------------------------
(* Properties of the read-only queries *)

ReadOnlyQueries ==
    {"find_attack_paths_bfs", "find_attack_paths_dfs", "calculate_blast_radius",
     "find_critical_paths", "get_network_stats", "export_to_dict"}

\* C27: a call of find_attack_paths_bfs, find_attack_paths_dfs,
\* calculate_blast_radius, find_critical_paths, get_network_stats or
\* export_to_dict leaves the graph, the asset metadata with its compromise
\* flags and the vulnerability registry as they were before the call
C27_QueriesChangeNothing ==
    [][(Idle /\ op' \in ReadOnlyQueries) =>
           /\ graph' = graph
           /\ asset_metadata' = asset_metadata
           /\ vulnerability_data' = vulnerability_data
           /\ heap'[vulnerability_data'] = heap[vulnerability_data]]_vars

\* a blast radius result on an engine with edges, a registry entry and
\* compromise flags left by a run, after an export
C27_Witness ==
    /\ IsBlastResult
    /\ snapshot.held
    /\ NumEdges(graph) > 0
    /\ NumVulns(Vulns) > 0
    /\ Cardinality(Flagged(asset_metadata)) >= 2

-----------------------------------------------------------------------------
(* Properties of snapshot independence *)

EngineMutations == {"add_asset", "add_connection", "add_vulnerability", "import_from_dict"}

\* C28: a snapshot held by a caller, returned by export_to_dict or passed to
\* import_from_dict, keeps its nodes, edges and vulnerabilities when the
\* engine is mutated afterwards by add_asset, add_connection,
\* add_vulnerability or import_from_dict
C28_SnapshotIndependent ==
    [][(snapshot.held /\ op' \in EngineMutations) =>
           /\ snapshot'.nodes = snapshot.nodes
           /\ snapshot'.edges = snapshot.edges
           /\ ListedVulns(snapshot', heap') = ListedVulns(snapshot, heap)]_vars

\* C29: import_from_dict leaves the snapshot it is given as it was, and a
\* second import of the same snapshot right after a first that returned
\* returns too and leaves the engine as the first import left it
C29_ImportIdempotent ==
    [][(snapshot.held /\ op' = "import_from_dict") =>
           /\ snapshot'.nodes = snapshot.nodes
           /\ snapshot'.edges = snapshot.edges
           /\ (op = "import_from_dict" /\ ret.kind = "none") =>
                 /\ ret'.kind = "none"
                 /\ graph' = graph
                 /\ asset_metadata' = asset_metadata
                 /\ heap'[vulnerability_data'] = heap[vulnerability_data]]_vars

-----------------------------------------------------------------------------
(* The service: route handlers and the scheduler job on the singleton engine *)

\* Every route of twin.py is an "async def" without an await, and the job of
\* the AsyncIOScheduler is a coroutine of the same event loop whose engine
\* calls have no await between them: the loop runs a handler from its start to
\* its return before it runs another, so a handler starts only when no engine
\* call is in progress (Idle). The steps of a simulation run stay separate
\* steps here.
NextService ==
    \/ \E id \in IngestIds : AddAsset(id, AssetHigh)
    \/ AddConnection("a", "b", DefaultConn, FALSE)
    \/ AddVulnerability("b", VulnCritical)
    \/ ExportToDict
    \/ ImportFromDict
    \/ SyncDigitalTwinJob
    \/ SimulateLateralMovement("a", 1, 500)
    \/ SimTimeStep
    \/ SimNextSource
    \/ SimAttempt
    \/ SimReturn
    \/ FindAttackPathsBfs("a", "b", MaxDepth)
    \/ FindAttackPathsDfs("a", "b", MaxDepth)
    \/ CalculateBlastRadius("a", MaxHops)
    \/ FindCriticalPaths
    \/ (graph.nodes # {} /\ GetNetworkStats)

SpecService == Init /\ [][NextService]_vars

-----------------------------------------------------------------------------
(* Properties of the service *)

-----------------------------------------------------------------------------
(* The audit ledger: Block and BlockchainLedger of ledger/chain.py *)

MaxBlocks == 3

\* Optional values are sequences of length 0 or 1
None == << >>
Some(x) == <<x>>

\* datetime.now(timezone.utc).isoformat() at construction and at an append
GenesisTime == "t0"
Timestamps == {"t1", "t2"}

\* (event_type, data, actor) given to add_block and add_signed_block
LedgerEvents ==
    { [event_type |-> "incident_created", data |-> "{'incident': 1}", actor |-> "soc_analyst"],
      [event_type |-> "analysis_complete", data |-> "{'risk': 9}", actor |-> "agent"] }

\* RSA key pairs of generate_keys(): the private and the public key of an actor
Actors == {"k1", "k2"}
PrivateKey(k) == <<"private", k>>
PublicKey(k) == <<"public", k>>

\* "0" * 64; digests are tuples
ZeroHash == <<"0000000000000000000000000000000000000000000000000000000000000000">>

\* sha256 of the JSON text of the seven hashed fields: the text itself, which
\* no two different contents share
calculate_hash(b) ==
    <<"sha256", b.index, b.timestamp, b.event_type, b.data, b.actor, b.prev_hash, b.nonce>>

signing_payload(b) ==
    <<"payload", b.index, b.timestamp, b.event_type, b.data, b.actor, b.prev_hash>>

\* signature.py: RSA-PSS over the message with the private key
sign_data(private_key, message) == <<"signature", private_key[2], message>>

\* True when the signature was made over this message with the private key of
\* this public key
verify_signature(public_key, message, signature) ==
    /\ signature[1] = "signature"
    /\ signature[2] = public_key[2]
    /\ signature[3] = message

serialize_public_key(public_key) == <<"PEM", public_key[2]>>

\* load_pem_public_key raises for a text that is no PEM key
IsPem(pem_string) == pem_string[1] = "PEM"

deserialize_public_key(pem_string) == PublicKey(pem_string[2])

\* Block(...) with the dataclass defaults hash "", nonce 0, signature None,
\* public_key_pem None
Block(index, timestamp, event_type, data, actor, prev_hash) ==
    [index |-> index, timestamp |-> timestamp, event_type |-> event_type, data |-> data,
     actor |-> actor, prev_hash |-> prev_hash, hash |-> << >>, nonce |-> 0,
     signature |-> None, public_key_pem |-> None]

WithHash(b) == [b EXCEPT !.hash = calculate_hash(b)]

create_genesis_block(timestamp) ==
    WithHash(Block(0, timestamp, "genesis", "{'message': 'Contexta Ledger Genesis Block'}",
                   "system", ZeroHash))

add_block(c, timestamp, event_type, data, actor) ==
    LET prev_block == c[Len(c)]
        new_block == Block(Len(c), timestamp, event_type, data, actor, prev_block.hash)
    IN Append(c, WithHash(new_block))

add_signed_block(c, timestamp, event_type, data, actor, private_key, public_key) ==
    LET prev_block == c[Len(c)]
        new_block == Block(Len(c), timestamp, event_type, data, actor, prev_block.hash)
        signed == [new_block EXCEPT
                      !.signature = Some(sign_data(private_key, signing_payload(new_block))),
                      !.public_key_pem = Some(serialize_public_key(public_key))]
    IN Append(c, WithHash(signed))

\* the issues verify_chain appends for block i (0-based), in order
BlockIssues(c, i) ==
    LET current == c[i + 1]
        previous == c[i]
        signed == current.signature # None /\ current.public_key_pem # None
    IN (IF current.hash # calculate_hash(current)
        THEN <<<<i, "hash is corrupted">>>> ELSE << >>)
       \o (IF current.prev_hash # previous.hash
           THEN <<<<i, "has broken chain link">>>> ELSE << >>)
       \o (IF ~signed THEN << >>
           ELSE IF ~IsPem(current.public_key_pem[1])
           THEN <<<<i, "signature verification error">>>>
           ELSE IF ~verify_signature(deserialize_public_key(current.public_key_pem[1]),
                                     signing_payload(current), current.signature[1])
           THEN <<<<i, "has invalid signature">>>>
           ELSE << >>)

RECURSIVE ChainIssues(_, _)
ChainIssues(c, i) ==
    IF i >= Len(c) THEN << >> ELSE BlockIssues(c, i) \o ChainIssues(c, i + 1)

verify_chain(c) ==
    IF c = << >>
    THEN [kind |-> "verification", valid |-> FALSE, blocks_verified |-> None,
          issues |-> Some(<<<<0, "Chain is empty - no genesis block">>>>)]
    ELSE LET genesis == c[1]
             issues ==
                 (IF genesis.prev_hash # ZeroHash
                  THEN <<<<0, "Genesis block has invalid prev_hash">>>> ELSE << >>)
                 \o (IF genesis.hash # calculate_hash(genesis)
                     THEN <<<<0, "Genesis block hash is corrupted">>>> ELSE << >>)
                 \o ChainIssues(c, 1)
         IN [kind |-> "verification", valid |-> Len(issues) = 0,
             blocks_verified |-> Some(Len(c)),
             issues |-> IF issues # << >> THEN Some(issues) ELSE None]

AddBlock(event) ==
    /\ chain # << >>
    /\ Len(chain) < MaxBlocks
    /\ \E timestamp \in Timestamps :
          chain' = add_block(chain, timestamp, event.event_type, event.data, event.actor)
    /\ op' = "add_block"
    /\ args' = event
    /\ ret' = RetNone
    /\ UNCHANGED <<graph, asset_metadata, vulnerability_data, heap, snapshot, sim>>

AddSignedBlock(event, private_key, public_key) ==
    /\ chain # << >>
    /\ Len(chain) < MaxBlocks
    /\ \E timestamp \in Timestamps :
          chain' = add_signed_block(chain, timestamp, event.event_type, event.data,
                                    event.actor, private_key, public_key)
    /\ op' = "add_signed_block"
    /\ args' = [event |-> event, private_key |-> private_key, public_key |-> public_key]
    /\ ret' = RetNone
    /\ UNCHANGED <<graph, asset_metadata, vulnerability_data, heap, snapshot, sim>>

VerifyChain ==
    /\ op' = "verify_chain"
    /\ args' = << >>
    /\ ret' = verify_chain(chain)
    /\ UNCHANGED <<graph, asset_metadata, vulnerability_data, heap, snapshot, sim, chain>>

\* BlockchainLedger(): the chain holds the genesis block
InitLedger ==
    /\ graph = EmptyGraph
    /\ asset_metadata = EmptyDict
    /\ vulnerability_data = 1
    /\ heap = [r \in Refs |-> EmptyDict]
    /\ snapshot = NoSnapshot
    /\ sim = SimIdle
    /\ op = "init"
    /\ args = << >>
    /\ ret = RetNone
    /\ chain = <<create_genesis_block(GenesisTime)>>

\* the key arguments of the add_signed_block calls: the two keys of one actor,
\* and the private key of one actor with the public key of the other
KeyArguments == {<<"k1", "k1">>, <<"k2", "k1">>}

NextLedger ==
    \/ \E event \in LedgerEvents : AddBlock(event)
    \/ \E event \in LedgerEvents, k \in KeyArguments :
          AddSignedBlock(event, PrivateKey(k[1]), PublicKey(k[2]))
    \/ VerifyChain

SpecLedger == InitLedger /\ [][NextLedger]_vars

-----------------------------------------------------------------------------
(* Properties of the ledger *)

\* the indices, the links and the stored hashes of a chain are in order
Linked(c) ==
    /\ c # << >>
    /\ \A i \in 1..Len(c) :
          /\ c[i].index = i - 1
          /\ c[i].hash = calculate_hash(c[i])
          /\ c[i].prev_hash = IF i = 1 THEN ZeroHash ELSE c[i - 1].hash
    /\ c[1].event_type = "genesis"

\* C22: after construction and any sequence of add_block / add_signed_block
\* calls block i has index i, block 0 is the genesis block with prev_hash of 64
\* zeros, every later prev_hash is the stored hash of the block before, every
\* stored hash is calculate_hash() of its block, and verify_chain returns
\* valid = True, blocks_verified = the chain length and issues = None
C22_ChainIntact ==
    /\ Linked(chain)
    /\ op = "verify_chain" =>
          /\ ret.valid
          /\ ret.blocks_verified = Some(Len(chain))
          /\ ret.issues = None

\* every signed block records the public key of the key it was signed with
KeysMatch(c) ==
    \A i \in 1..Len(c) :
        c[i].signature # None =>
            c[i].public_key_pem = Some(serialize_public_key(PublicKey(c[i].signature[1][2])))

\* with matching keys the chain verifies
IntactWithMatchingKeys == KeysMatch(chain) => C22_ChainIntact

-----------------------------------------------------------------------------
(* A recorded field of an appended block is overwritten in place, as
   tests/test_ledger.py does with ledger.chain[1].data = {"tampered": True} *)

\* the chain is as the add_block / add_signed_block calls left it
AsAppended(c) ==
    /\ Linked(c)
    /\ \A i \in 1..Len(c) :
          \/ c[i].signature = None /\ c[i].public_key_pem = None
          \/ /\ \E k \in Actors :
                   c[i].signature = Some(sign_data(PrivateKey(k), signing_payload(c[i])))
             /\ \E k \in Actors :
                   c[i].public_key_pem = Some(serialize_public_key(PublicKey(k)))

\* the values a field of block c[i] can be overwritten with
TamperValues(c, i, field) ==
    CASE field = "index" -> 0..MaxBlocks
      [] field = "timestamp" -> Timestamps \cup {GenesisTime}
      [] field = "event_type" -> {e.event_type : e \in LedgerEvents} \cup {"genesis"}
      [] field = "data" -> {e.data : e \in LedgerEvents}
      [] field = "actor" -> {e.actor : e \in LedgerEvents}
      [] field = "prev_hash" -> {ZeroHash} \cup {c[j].hash : j \in 1..Len(c)}
      [] field = "signature" ->
            {None} \cup {Some(sign_data(PrivateKey(k), signing_payload(c[i]))) : k \in Actors}
                   \cup {c[j].signature : j \in 1..Len(c)}
      [] field = "public_key_pem" ->
            {None, Some(<<"not a PEM key">>)}
                \cup {Some(serialize_public_key(PublicKey(k))) : k \in Actors}

RecordedFields == {"index", "timestamp", "event_type", "data", "actor", "prev_hash"}
SignatureFields == {"signature", "public_key_pem"}

\* one field of one block of a chain that was appended to and verifies
Tamper(i, field, value) ==
    /\ AsAppended(chain)
    /\ verify_chain(chain).valid
    /\ i \in 1..Len(chain)
    /\ field \in SignatureFields => chain[i].signature # None
    /\ value # chain[i][field]
    /\ chain' = [chain EXCEPT ![i][field] = value]
    /\ op' = "tamper"
    /\ args' = [block |-> i - 1, field |-> field, value |-> value]
    /\ ret' = RetNone
    /\ UNCHANGED <<graph, asset_metadata, vulnerability_data, heap, snapshot, sim>>

NextTamper ==
    \/ NextLedger
    \/ \E i \in 1..Len(chain), field \in RecordedFields \cup SignatureFields :
          \E value \in TamperValues(chain, i, field) : Tamper(i, field, value)

SpecTamper == InitLedger /\ [][NextTamper]_vars

\* C23: when a recorded field of an appended block (index, timestamp,
\* event_type, data, actor, prev_hash), or the signature or the public key of a
\* signed block, is changed and the rest of the chain is left as it was,
\* verify_chain returns valid = False with a non-empty list of issues
C23_TamperDetected ==
    [][(op = "tamper" /\ op' = "verify_chain") =>
           (~ret'.valid /\ ret'.issues # None /\ Len(ret'.issues[1]) > 0)]_vars

\* a change is detected unless it empties the signature or the public key of a
\* signed block
DetectedUnlessEmptied ==
    [][(op = "tamper" /\ op' = "verify_chain"
            /\ ~(args.field \in SignatureFields /\ args.value = None)) =>
           (~ret'.valid /\ ret'.issues # None)]_vars

====
